---- MODULE Spec2Model ----
(***************************************************************************)
(* Financial analytics and scoring engine (johnny861110/Financial_Agent). *)
(*                                                                         *)
(* The engine is a set of synchronous services over a flat-file snapshot   *)
(* store.  Each service call is one action: it reads the store, computes   *)
(* and leaves its result object in the variable that holds the value the   *)
(* caller receives.  Every component has its own specification; the        *)
(* variables of the other components stay at NotUsed.                      *)
(*                                                                         *)
(* Numbers: the code computes in floats.  The model computes in exact      *)
(* rationals <<n, d>> (d > 0, lowest terms), so equalities checked here    *)
(* are the mathematical ones the floats approximate.                       *)
(***************************************************************************)
EXTENDS Integers, Sequences, FiniteSets, TLC

VARIABLES
    signals,          \* EarlyWarningService: the list of triggered signals
    warning_level,    \* EarlyWarningService: _determine_warning_level(signals)
    score,            \* the last score object built (or a ValidationError)
    metric,           \* the last TrendMetric built, with its computed fields
    files,            \* the snapshot store: <<stock_code, period>> -> file content
    call,             \* the arguments of the service call made
    result            \* what the service call returned

vars == <<signals, warning_level, score, metric, files, call, result>>

NotUsed == "not_used"

(***************************************************************************)
(* Exact rational arithmetic.                                              *)
(***************************************************************************)
Abs(x) == IF x < 0 THEN -x ELSE x

RECURSIVE GCD(_, _)
GCD(a, b) == IF b = 0 THEN a ELSE GCD(b, a % b)

Rat(n, d) ==
    LET s == IF d < 0 THEN -1 ELSE 1
        g == GCD(Abs(n), Abs(d))
    IN  <<(s * n) \div g, (s * d) \div g>>

RInt(k) == <<k, 1>>
RAdd(x, y) == Rat(x[1] * y[2] + y[1] * x[2], x[2] * y[2])
RSub(x, y) == Rat(x[1] * y[2] - y[1] * x[2], x[2] * y[2])
RMul(x, y) == Rat(x[1] * y[1], x[2] * y[2])
RDiv(x, y) == Rat(x[1] * y[2], x[2] * y[1])
RLess(x, y) == x[1] * y[2] < y[1] * x[2]
RLeq(x, y) == x[1] * y[2] <= y[1] * x[2]
RZero == RInt(0)

(***************************************************************************)
(* Early-warning severity aggregation (app/services/ews_service.py).       *)
(***************************************************************************)
Severity == {"low", "medium", "high", "critical"}

\* sum(1 for s in signals if s.severity == sev)
CountSeverity(sigs, sev) ==
    Cardinality({i \in DOMAIN sigs : sigs[i].severity = sev})

\* the same reduction with the high_count >= 1 branch lost
determine_warning_level_two_high(sigs) ==
    IF sigs = <<>> THEN "none"
    ELSE LET critical_count == CountSeverity(sigs, "critical")
             high_count == CountSeverity(sigs, "high")
             medium_count == CountSeverity(sigs, "medium")
         IN  IF critical_count > 0 THEN "critical"
             ELSE IF high_count >= 2 THEN "high"
             ELSE IF medium_count >= 3 THEN "medium"
             ELSE IF medium_count >= 1 THEN "low"
             ELSE "low"

\* the same reduction with the medium tier taken at exactly three signals
determine_warning_level_exactly_three(sigs) ==
    IF sigs = <<>> THEN "none"
    ELSE LET critical_count == CountSeverity(sigs, "critical")
             high_count == CountSeverity(sigs, "high")
             medium_count == CountSeverity(sigs, "medium")
         IN  IF critical_count > 0 THEN "critical"
             ELSE IF high_count >= 2 THEN "high"
             ELSE IF high_count >= 1 THEN "high"
             ELSE IF medium_count = 3 THEN "medium"
             ELSE IF medium_count >= 1 THEN "low"
             ELSE "low"

_determine_warning_level(sigs) ==
    IF sigs = <<>> THEN "none"
    ELSE LET critical_count == CountSeverity(sigs, "critical")
             high_count == CountSeverity(sigs, "high")
             medium_count == CountSeverity(sigs, "medium")
         IN  IF critical_count > 0 THEN "critical"
             ELSE IF high_count >= 2 THEN "high"
             ELSE IF high_count >= 1 THEN "high"
             ELSE IF medium_count >= 3 THEN "medium"
             ELSE IF medium_count >= 1 THEN "low"
             ELSE "low"

MaxSignals == 4

EwsIdle == signals = NotUsed /\ warning_level = NotUsed
ScoreIdle == score = NotUsed
MetricIdle == metric = NotUsed
ServiceIdle == files = NotUsed /\ call = NotUsed /\ result = NotUsed

\* signals.extend(<one rule's finding>) followed by the aggregation
ExtendSignals(sev) ==
    /\ Len(signals) < MaxSignals
    /\ signals' = Append(signals, [signal_name |-> "rule", severity |-> sev])
    /\ warning_level' = _determine_warning_level(signals')
    /\ UNCHANGED <<score, metric, files, call, result>>

InitLevel ==
    /\ signals = <<>>
    /\ warning_level = _determine_warning_level(<<>>)
    /\ ScoreIdle /\ MetricIdle /\ ServiceIdle

NextLevel == \E sev \in Severity : ExtendSignals(sev)

SpecLevel == InitLevel /\ [][NextLevel]_vars

SeverityRank(level) ==
    CASE level = "none" -> 0
      [] level = "low" -> 1
      [] level = "medium" -> 2
      [] level = "high" -> 3
      [] level = "critical" -> 4

\* C1: the overall level is critical with at least one critical signal,
\* otherwise high with at least one high signal, otherwise medium with at
\* least three medium signals, otherwise low with at least one medium
\* signal, and none exactly when the list of signals is empty.
C1_LevelReduction ==
    LET c == CountSeverity(signals, "critical")
        h == CountSeverity(signals, "high")
        m == CountSeverity(signals, "medium")
    IN  /\ (c >= 1 => warning_level = "critical")
        /\ (c = 0 /\ h >= 1 => warning_level = "high")
        /\ (c = 0 /\ h = 0 /\ m >= 3 => warning_level = "medium")
        /\ (c = 0 /\ h = 0 /\ m >= 1 /\ m < 3 => warning_level = "low")
        /\ (warning_level = "none" <=> signals = <<>>)

C1_Witness ==
    /\ Len(signals) = 4
    /\ CountSeverity(signals, "medium") = 3
    /\ CountSeverity(signals, "low") = 1
    /\ warning_level = "medium"

\* C2: appending a signal never lowers the overall level in the order
\* none < low < medium < high < critical, and appending a critical signal
\* makes the overall level critical.
C2_Monotone ==
    [][ /\ SeverityRank(warning_level') >= SeverityRank(warning_level)
        /\ (signals'[Len(signals')].severity = "critical"
                => warning_level' = "critical") ]_vars

C2_Witness ==
    /\ Len(signals) = 4
    /\ CountSeverity(signals, "medium") = 3
    /\ signals[4].severity = "critical"
    /\ warning_level = "critical"

(***************************************************************************)
(* Score objects (app/models/__init__.py).  A score is built from keyword  *)
(* arguments; pydantic validates the four components against ge=0, le=100  *)
(* and ignores keywords that name no field.  total is a computed field:    *)
(* every read evaluates it from the components.                            *)
(***************************************************************************)
\* a variable that holds an object or nothing always holds a record; model
\* names the class, or None, or the exception the constructor raised
NoObject == [model |-> "None"]
ValidationError == [model |-> "ValidationError"]

\* Field(..., ge=0, le=100) of a float
ValidComponent(c) == RLeq(RZero, c) /\ RLeq(c, RInt(100))

Quarter == Rat(1, 4)

Weighted4(c1, c2, c3, c4) ==
    RAdd(RAdd(RAdd(RMul(Quarter, c1), RMul(Quarter, c2)),
              RMul(Quarter, c3)),
         RMul(Quarter, c4))

\* a constructor that lets a total keyword override the computed field
ManagementScore_settable(kw) ==
    IF \A f \in {"tenure_stability", "board_independence",
                 "insider_alignment", "governance_red_flags"} :
           ValidComponent(kw[f])
    THEN [model |-> "ManagementScore",
          tenure_stability |-> kw.tenure_stability,
          board_independence |-> kw.board_independence,
          insider_alignment |-> kw.insider_alignment,
          governance_red_flags |-> kw.governance_red_flags,
          total |-> IF kw.total # <<>> THEN RInt(kw.total[1])
                    ELSE Weighted4(kw.tenure_stability, kw.board_independence,
                                   kw.insider_alignment, kw.governance_red_flags)]
    ELSE ValidationError

ManagementScore(kw) ==
    IF \A f \in {"tenure_stability", "board_independence",
                 "insider_alignment", "governance_red_flags"} :
           ValidComponent(kw[f])
    THEN [model |-> "ManagementScore",
          tenure_stability |-> kw.tenure_stability,
          board_independence |-> kw.board_independence,
          insider_alignment |-> kw.insider_alignment,
          governance_red_flags |-> kw.governance_red_flags,
          total |-> Weighted4(kw.tenure_stability, kw.board_independence,
                              kw.insider_alignment, kw.governance_red_flags)]
    ELSE ValidationError

EarningsQualityScore(kw) ==
    IF \A f \in {"accrual_quality", "working_capital_behavior",
                 "one_off_dependency", "earnings_stability"} :
           ValidComponent(kw[f])
    THEN [model |-> "EarningsQualityScore",
          accrual_quality |-> kw.accrual_quality,
          working_capital_behavior |-> kw.working_capital_behavior,
          one_off_dependency |-> kw.one_off_dependency,
          earnings_stability |-> kw.earnings_stability,
          total |-> Weighted4(kw.accrual_quality, kw.working_capital_behavior,
                              kw.one_off_dependency, kw.earnings_stability)]
    ELSE ValidationError

\* component arguments tried: the ends of the range, two inner values and
\* one value outside each end
ComponentArgs == {-1, 0, 30, 75, 100, 101}
\* an extra total keyword: absent, or a value
TotalArgs == {<<>>, <<0>>, <<100>>}

BuildManagementScore(c1, c2, c3, c4, t) ==
    /\ score = NoObject
    /\ score' = ManagementScore([tenure_stability |-> RInt(c1),
                                 board_independence |-> RInt(c2),
                                 insider_alignment |-> RInt(c3),
                                 governance_red_flags |-> RInt(c4),
                                 total |-> t])
    /\ UNCHANGED <<signals, warning_level, metric, files, call, result>>

BuildEarningsQualityScore(c1, c2, c3, c4, t) ==
    /\ score = NoObject
    /\ score' = EarningsQualityScore([accrual_quality |-> RInt(c1),
                                      working_capital_behavior |-> RInt(c2),
                                      one_off_dependency |-> RInt(c3),
                                      earnings_stability |-> RInt(c4),
                                      total |-> t])
    /\ UNCHANGED <<signals, warning_level, metric, files, call, result>>

InitScore == score = NoObject /\ EwsIdle /\ MetricIdle /\ ServiceIdle

NextScore ==
    \/ \E c1, c2, c3, c4 \in ComponentArgs, t \in TotalArgs :
           BuildManagementScore(c1, c2, c3, c4, t)
    \/ \E c1, c2, c3, c4 \in ComponentArgs, t \in TotalArgs :
           BuildEarningsQualityScore(c1, c2, c3, c4, t)

SpecScore == InitScore /\ [][NextScore]_vars

IsScore == score.model \in {"ManagementScore", "EarningsQualityScore"}

ComponentSum ==
    IF score.model = "ManagementScore"
    THEN RAdd(RAdd(score.tenure_stability, score.board_independence),
              RAdd(score.insider_alignment, score.governance_red_flags))
    ELSE RAdd(RAdd(score.accrual_quality, score.working_capital_behavior),
              RAdd(score.one_off_dependency, score.earnings_stability))

\* C3: whatever arguments a score object was built from, its total is the
\* sum of its four components divided by 4, so no argument sets the total
\* apart from the components.
C3_TotalIsMean ==
    IsScore => score.total = RDiv(ComponentSum, RInt(4))

C3_Witness ==
    /\ IsScore
    /\ score.model = "ManagementScore"
    /\ score.tenure_stability = RInt(30)
    /\ score.board_independence = RInt(75)
    /\ score.insider_alignment = RInt(100)
    /\ score.governance_red_flags = RZero
    /\ score.total = Rat(205, 4)

(***************************************************************************)
(* TrendMetric (app/models/__init__.py): a value sequence and the computed *)
(* fields read from it.  An Optional[float] is a sequence: <<>> for None,  *)
(* <<x>> for the number x.                                                 *)
(***************************************************************************)
\* reads the whole sequence instead of its last three values
trend_direction_whole(values) ==
    IF Len(values) < 2 THEN "insufficient_data"
    ELSE IF \A i \in 2..Len(values) : RLess(values[i - 1], values[i])
         THEN "improving"
         ELSE IF \A i \in 2..Len(values) : RLess(values[i], values[i - 1])
              THEN "declining"
              ELSE "stable"

trend_direction(values) ==
    IF Len(values) < 2 THEN "insufficient_data"
    ELSE LET recent == IF Len(values) >= 3
                       THEN SubSeq(values, Len(values) - 2, Len(values))
                       ELSE values
         IN  IF \A i \in 2..Len(recent) : RLess(recent[i - 1], recent[i])
             THEN "improving"
             ELSE IF \A i \in 2..Len(recent) : RLess(recent[i], recent[i - 1])
                  THEN "declining"
                  ELSE "stable"

latest_value(values) ==
    IF values # <<>> THEN <<values[Len(values)]>> ELSE <<>>

\* always compares with the value four places from the end
yoy_change_four_back(values) ==
    IF Len(values) >= 4
    THEN LET current == values[Len(values)]
             year_ago == values[Len(values) - 3]
         IN  IF year_ago # RZero
             THEN <<RMul(RDiv(RSub(current, year_ago), year_ago), RInt(100))>>
             ELSE <<>>
    ELSE <<>>

\* values[-5] is values[Len - 4] and values[-4] is values[Len - 3] here
yoy_change(values) ==
    IF Len(values) >= 4
    THEN LET current == values[Len(values)]
             year_ago == IF Len(values) >= 5
                         THEN values[Len(values) - 4]
                         ELSE values[Len(values) - 3]
         IN  IF year_ago # RZero
             THEN <<RMul(RDiv(RSub(current, year_ago), year_ago), RInt(100))>>
             ELSE <<>>
    ELSE <<>>

TrendMetric(metric_name, periods, values) ==
    [model |-> "TrendMetric",
     metric_name |-> metric_name,
     periods |-> periods,
     values |-> values,
     trend_direction |-> trend_direction(values),
     latest_value |-> latest_value(values),
     yoy_change |-> yoy_change(values)]

MaxValues == 5
MaxValue == 2
ValueGrid == -1..MaxValue
ValueSeqs == UNION {[1..n -> ValueGrid] : n \in 0..MaxValues}

BuildTrendMetric(values) ==
    /\ metric = NoObject
    /\ metric' = TrendMetric("Metric", [i \in DOMAIN values |-> i],
                              [i \in DOMAIN values |-> RInt(values[i])])
    /\ UNCHANGED <<signals, warning_level, score, files, call, result>>

InitMetric == metric = NoObject /\ EwsIdle /\ ScoreIdle /\ ServiceIdle

NextMetric == \E values \in ValueSeqs : BuildTrendMetric(values)

SpecMetric == InitMetric /\ [][NextMetric]_vars

IsMetric == metric.model = "TrendMetric"

\* the i-th of the last k values of the metric, all whole numbers here
TailValue(k, i) == metric.values[Len(metric.values) - k + i][1]
TailLen == IF Len(metric.values) < 3 THEN Len(metric.values) ELSE 3

\* C4: with at least 2 values the direction is improving iff the last
\* min(3, n) values are strictly increasing, declining iff they are
\* strictly decreasing, and stable otherwise.
C4_TrendDirection ==
    (IsMetric /\ Len(metric.values) >= 2) =>
        LET up == \A i \in 1..(TailLen - 1) :
                      TailValue(TailLen, i) < TailValue(TailLen, i + 1)
            down == \A i \in 1..(TailLen - 1) :
                      TailValue(TailLen, i) > TailValue(TailLen, i + 1)
        IN  /\ (metric.trend_direction = "improving" <=> up)
            /\ (metric.trend_direction = "declining" <=> down)
            /\ (metric.trend_direction = "stable" <=> (~up /\ ~down))

C4_Witness ==
    /\ IsMetric
    /\ metric.values = <<RInt(2), RInt(0), RInt(1), RInt(2)>>
    /\ metric.trend_direction = "improving"

\* C5: yoy_change is None with fewer than 4 values or a base of 0, and
\* otherwise (latest - base) / base * 100, the base being the 5th value
\* from the end when there are at least 5 values and the 4th from the end
\* when there are exactly 4.
C5_YoyChange ==
    IsMetric =>
        LET n == Len(metric.values)
            base == IF n >= 5 THEN TailValue(5, 1) ELSE TailValue(4, 1)
        IN  IF n < 4 \/ base = 0
            THEN metric.yoy_change = <<>>
            ELSE metric.yoy_change =
                     <<Rat((TailValue(1, 1) - base) * 100, base)>>

C5_Witness ==
    /\ IsMetric
    /\ metric.values = <<RInt(2), RInt(1), RInt(0), RInt(0), RInt(-1)>>
    /\ metric.yoy_change = <<RInt(-150)>>

(***************************************************************************)
(* FinancialSnapshot (app/models/__init__.py) and the snapshot store       *)
(* (app/core/data_loader.py).  The store holds one file per (stock_code,   *)
(* period); a file holds the fields of a snapshot, or content that does    *)
(* not parse.  Stock codes are numbers ("2330") and a company is named by  *)
(* its code.  Periods are numbered in the order of their labels            *)
(* ("2023Q1" < "2023Q2" < ...).  The converter names a file after the      *)
(* stock_code and report_period it writes into it.                         *)
(***************************************************************************)
\* the statement fields the snapshots of the store are drawn from
Profiles ==
    [healthy |->
        [cash_and_equivalents |-> 2, accounts_receivable |-> 1, inventory |-> 1,
         total_assets |-> 8, total_liabilities |-> 4, equity |-> 4,
         net_revenue |-> 8, gross_profit |-> 4, operating_income |-> 2,
         net_income |-> 1, eps |-> 2,
         current_assets |-> <<4>>, current_liabilities |-> <<2>>,
         operating_cash_flow |-> <<2>>],
     modest |->
        [cash_and_equivalents |-> 1, accounts_receivable |-> 1, inventory |-> 0,
         total_assets |-> 2, total_liabilities |-> 1, equity |-> 1,
         net_revenue |-> 2, gross_profit |-> 1, operating_income |-> 1,
         net_income |-> 0, eps |-> 1,
         current_assets |-> <<2>>, current_liabilities |-> <<0>>,
         operating_cash_flow |-> <<0>>],
     loss |->
        [cash_and_equivalents |-> 1, accounts_receivable |-> 2, inventory |-> 1,
         total_assets |-> 4, total_liabilities |-> 2, equity |-> 2,
         net_revenue |-> 4, gross_profit |-> 1, operating_income |-> -1,
         net_income |-> -1, eps |-> -1,
         current_assets |-> <<>>, current_liabilities |-> <<1>>,
         operating_cash_flow |-> <<-1>>],
     shell |->
        [cash_and_equivalents |-> 0, accounts_receivable |-> 0, inventory |-> 0,
         total_assets |-> 0, total_liabilities |-> 0, equity |-> 0,
         net_revenue |-> 0, gross_profit |-> 0, operating_income |-> 0,
         net_income |-> 0, eps |-> 0,
         current_assets |-> <<>>, current_liabilities |-> <<>>,
         operating_cash_flow |-> <<>>]]

ProfileNames == DOMAIN Profiles

\* the operating cash flow of the snapshots that differ in nothing else:
\* absent, 0, and amounts on both sides of net income 4
AccrualCashFlows ==
    [ocf_absent |-> <<>>, ocf_0 |-> <<0>>, ocf_4 |-> <<4>>, ocf_5 |-> <<5>>,
     ocf_6 |-> <<6>>, ocf_7 |-> <<7>>, ocf_8 |-> <<8>>, ocf_minus_1 |-> <<-1>>]

AccrualProfileNames == DOMAIN AccrualCashFlows

AccrualProfiles ==
    [n \in AccrualProfileNames |->
        [cash_and_equivalents |-> 2, accounts_receivable |-> 2, inventory |-> 2,
         total_assets |-> 20, total_liabilities |-> 10, equity |-> 10,
         net_revenue |-> 20, gross_profit |-> 10, operating_income |-> 4,
         net_income |-> 4, eps |-> 2,
         current_assets |-> <<10>>, current_liabilities |-> <<5>>,
         operating_cash_flow |-> AccrualCashFlows[n]]]

\* the total liabilities of the snapshots that differ in nothing else, on
\* total assets of 20: debt ratios of 65, 70, 75, 80 and 90 percent
LeverageLiabilities ==
    [tl_13 |-> 13, tl_14 |-> 14, tl_15 |-> 15, tl_16 |-> 16, tl_18 |-> 18]

LeverageProfileNames == DOMAIN LeverageLiabilities

LeverageProfiles ==
    [n \in LeverageProfileNames |->
        [cash_and_equivalents |-> 2, accounts_receivable |-> 2, inventory |-> 2,
         total_assets |-> 20,
         total_liabilities |-> LeverageLiabilities[n],
         equity |-> 20 - LeverageLiabilities[n],
         net_revenue |-> 20, gross_profit |-> 10, operating_income |-> 4,
         net_income |-> 4, eps |-> 2,
         current_assets |-> <<10>>, current_liabilities |-> <<5>>,
         operating_cash_flow |-> <<4>>]]

\* a quarter of a company in distress: liabilities of 85% of assets, no
\* cash, a loss and a negative operating cash flow
DistressProfiles ==
    [distressed |->
        [cash_and_equivalents |-> 0, accounts_receivable |-> 8, inventory |-> 8,
         total_assets |-> 20, total_liabilities |-> 17, equity |-> 3,
         net_revenue |-> 10, gross_profit |-> 2, operating_income |-> -2,
         net_income |-> -3, eps |-> -1,
         current_assets |-> <<16>>, current_liabilities |-> <<10>>,
         operating_cash_flow |-> <<-2>>]]

\* snapshots on the guards of the derived ratios: current assets present
\* and 0, no revenue, no equity, no assets
EdgeProfiles ==
    [ca_zero |->
        [cash_and_equivalents |-> 0, accounts_receivable |-> 0, inventory |-> 0,
         total_assets |-> 20, total_liabilities |-> 10, equity |-> 10,
         net_revenue |-> 20, gross_profit |-> 10, operating_income |-> 4,
         net_income |-> 4, eps |-> 2,
         current_assets |-> <<0>>, current_liabilities |-> <<5>>,
         operating_cash_flow |-> <<4>>],
     no_revenue |->
        [cash_and_equivalents |-> 2, accounts_receivable |-> 0, inventory |-> 2,
         total_assets |-> 20, total_liabilities |-> 10, equity |-> 10,
         net_revenue |-> 0, gross_profit |-> 0, operating_income |-> -2,
         net_income |-> -2, eps |-> -1,
         current_assets |-> <<4>>, current_liabilities |-> <<5>>,
         operating_cash_flow |-> <<-2>>],
     no_equity |->
        [cash_and_equivalents |-> 2, accounts_receivable |-> 2, inventory |-> 2,
         total_assets |-> 20, total_liabilities |-> 20, equity |-> 0,
         net_revenue |-> 10, gross_profit |-> 3, operating_income |-> -1,
         net_income |-> -3, eps |-> -1,
         current_assets |-> <<6>>, current_liabilities |-> <<12>>,
         operating_cash_flow |-> <<1>>],
     no_assets |->
        [cash_and_equivalents |-> 0, accounts_receivable |-> 0, inventory |-> 0,
         total_assets |-> 0, total_liabilities |-> 2, equity |-> 0,
         net_revenue |-> 4, gross_profit |-> 2, operating_income |-> 1,
         net_income |-> -1, eps |-> -1,
         current_assets |-> <<0>>, current_liabilities |-> <<0>>,
         operating_cash_flow |-> <<>>]]

AllProfiles ==
    Profiles @@ AccrualProfiles @@ LeverageProfiles @@ DistressProfiles
    @@ EdgeProfiles

\* FinancialSnapshot(**data) for the file of stock_code and period
FinancialSnapshot(stock_code, period, profile) ==
    [stock_code |-> stock_code, company_name |-> stock_code,
     report_period |-> period, profile |-> profile,
     cash_and_equivalents |-> AllProfiles[profile].cash_and_equivalents,
     accounts_receivable |-> AllProfiles[profile].accounts_receivable,
     inventory |-> AllProfiles[profile].inventory,
     total_assets |-> AllProfiles[profile].total_assets,
     total_liabilities |-> AllProfiles[profile].total_liabilities,
     equity |-> AllProfiles[profile].equity,
     net_revenue |-> AllProfiles[profile].net_revenue,
     gross_profit |-> AllProfiles[profile].gross_profit,
     operating_income |-> AllProfiles[profile].operating_income,
     net_income |-> AllProfiles[profile].net_income,
     eps |-> AllProfiles[profile].eps,
     current_assets |-> AllProfiles[profile].current_assets,
     current_liabilities |-> AllProfiles[profile].current_liabilities,
     operating_cash_flow |-> AllProfiles[profile].operating_cash_flow]

Percent(part, whole) == RMul(Rat(part, whole), RInt(100))

\* the ratio without the scaling to a percentage
gross_margin_fraction(s) ==
    IF s.net_revenue = 0 THEN RZero ELSE Rat(s.gross_profit, s.net_revenue)

gross_margin(s) ==
    IF s.net_revenue = 0 THEN RZero ELSE Percent(s.gross_profit, s.net_revenue)
operating_margin(s) ==
    IF s.net_revenue = 0 THEN RZero
    ELSE Percent(s.operating_income, s.net_revenue)
net_margin(s) ==
    IF s.net_revenue = 0 THEN RZero ELSE Percent(s.net_income, s.net_revenue)
debt_ratio(s) ==
    IF s.total_assets = 0 THEN RZero
    ELSE Percent(s.total_liabilities, s.total_assets)
equity_ratio(s) ==
    IF s.total_assets = 0 THEN RZero ELSE Percent(s.equity, s.total_assets)
roa(s) ==
    IF s.total_assets = 0 THEN RZero
    ELSE RMul(Percent(s.net_income, s.total_assets), RInt(4))
roe(s) ==
    IF s.equity = 0 THEN RZero
    ELSE RMul(Percent(s.net_income, s.equity), RInt(4))

\* Optional[float]: the truth test makes 0 count as absent
current_ratio(s) ==
    IF /\ s.current_assets # <<>> /\ s.current_assets[1] # 0
       /\ s.current_liabilities # <<>> /\ s.current_liabilities[1] # 0
    THEN <<Rat(s.current_assets[1], s.current_liabilities[1])>>
    ELSE <<>>

\* file content that json.load or FinancialSnapshot(**data) rejects
Corrupt == "corrupt"
FileContents == ProfileNames \cup {Corrupt}

\* DataLoader.load_snapshot: <<>> is None
load_snapshot(stock_code, period) ==
    IF <<stock_code, period>> \notin DOMAIN files THEN <<>>
    ELSE IF files[<<stock_code, period>>] = Corrupt THEN <<>>
    ELSE <<FinancialSnapshot(stock_code, period,
                             files[<<stock_code, period>>])>>

\* DataLoader.load_multiple_periods
RECURSIVE load_multiple_periods(_, _)
load_multiple_periods(stock_code, periods) ==
    IF periods = <<>> THEN <<>>
    ELSE load_snapshot(stock_code, Head(periods))
         \o load_multiple_periods(stock_code, Tail(periods))

\* sorted(xs) for a set of numbers
RECURSIVE SortedSeq(_)
SortedSeq(S) ==
    IF S = {} THEN <<>>
    ELSE LET m == CHOOSE x \in S : \A y \in S : x <= y
         IN  <<m>> \o SortedSeq(S \ {m})

\* DataLoader.list_available_periods: every file of the stock matches the
\* glob, whether or not it parses
list_available_periods(stock_code) ==
    SortedSeq({k[2] : k \in {f \in DOMAIN files : f[1] = stock_code}})

(***************************************************************************)
(* TrendService (app/services/trend_service.py).  An Optional[List] is     *)
(* <<>> for None and <<list>> for a list.                                  *)
(***************************************************************************)
\* snapshots.sort(key=lambda s: s.report_period): a stable insertion sort
RECURSIVE InsertByPeriod(_, _)
InsertByPeriod(sorted, s) ==
    IF sorted = <<>> THEN <<s>>
    ELSE IF s.report_period < Head(sorted).report_period
         THEN <<s>> \o sorted
         ELSE <<Head(sorted)>> \o InsertByPeriod(Tail(sorted), s)

RECURSIVE SortByPeriod(_)
SortByPeriod(snapshots) ==
    IF snapshots = <<>> THEN <<>>
    ELSE InsertByPeriod(SortByPeriod(SubSeq(snapshots, 1, Len(snapshots) - 1)),
                        snapshots[Len(snapshots)])

\* the extractors analyze_trend hands to _build_metric, in its order
MetricNames ==
    <<"Net Revenue", "Gross Margin (%)", "Operating Margin (%)",
      "Net Margin (%)", "EPS", "Debt Ratio (%)", "ROE (%)">>

Extract(metric_name, s) ==
    CASE metric_name = "Net Revenue" -> RInt(s.net_revenue)
      [] metric_name = "Gross Margin (%)" -> gross_margin(s)
      [] metric_name = "Operating Margin (%)" -> operating_margin(s)
      [] metric_name = "Net Margin (%)" -> net_margin(s)
      [] metric_name = "EPS" -> RInt(s.eps)
      [] metric_name = "Debt Ratio (%)" -> debt_ratio(s)
      [] metric_name = "ROE (%)" -> roe(s)

_build_metric(metric_name, snapshots) ==
    TrendMetric(metric_name,
                [i \in DOMAIN snapshots |-> snapshots[i].report_period],
                [i \in DOMAIN snapshots |-> Extract(metric_name, snapshots[i])])

\* the names of the metrics of one direction, in order
RECURSIVE NamesWith(_, _)
NamesWith(metrics, directions) ==
    IF metrics = <<>> THEN <<>>
    ELSE (IF Head(metrics).trend_direction \in directions
          THEN <<Head(metrics).metric_name>> ELSE <<>>)
         \o NamesWith(Tail(metrics), directions)

\* the three buckets the summary text joins
_generate_summary(metrics) ==
    [improving |-> NamesWith(metrics, {"improving"}),
     declining |-> NamesWith(metrics, {"declining"}),
     stable |-> NamesWith(metrics, {"stable", "insufficient_data"})]

TrendAnalysis(stock_code, snapshots) ==
    LET metrics == [m \in DOMAIN MetricNames |->
                        _build_metric(MetricNames[m], snapshots)]
    IN  [model |-> "TrendAnalysis",
         stock_code |-> stock_code,
         company_name |-> snapshots[1].company_name,
         metrics |-> metrics,
         summary |-> _generate_summary(metrics)]

\* returns an analysis from a single loaded snapshot
analyze_trend_one_is_enough(stock_code, periods_arg) ==
    LET periods == IF periods_arg = <<>>
                   THEN list_available_periods(stock_code)
                   ELSE periods_arg[1]
        snapshots == load_multiple_periods(stock_code, periods)
    IN  IF Len(periods) < 2 THEN NoObject
        ELSE IF Len(snapshots) < 1 THEN NoObject
        ELSE TrendAnalysis(stock_code, SortByPeriod(snapshots))

analyze_trend(stock_code, periods_arg) ==
    LET periods == IF periods_arg = <<>>
                   THEN list_available_periods(stock_code)
                   ELSE periods_arg[1]
        snapshots == load_multiple_periods(stock_code, periods)
    IN  IF Len(periods) < 2 THEN NoObject
        ELSE IF Len(snapshots) < 2 THEN NoObject
        ELSE TrendAnalysis(stock_code, SortByPeriod(snapshots))

NumPeriods == 3
MaxPeriodArgs == 3
Periods == 1..NumPeriods
TrendStock == 1
TrendContents == {"healthy", "loss", Corrupt}

\* every store of files of TrendStock
TrendStores ==
    UNION {[{<<TrendStock, p>> : p \in P} -> TrendContents] :
               P \in SUBSET Periods}

\* None, or a list of period labels (repeated or unknown labels included)
PeriodArgs ==
    {<<>>} \cup {<<l>> : l \in UNION {[1..n -> Periods] : n \in 0..MaxPeriodArgs}}

NoCall == [service |-> "none"]

AnalyzeTrend(stock_code, periods_arg) ==
    /\ call = NoCall
    /\ call' = [service |-> "analyze_trend", stock_code |-> stock_code,
                periods |-> periods_arg]
    /\ result' = analyze_trend(stock_code, periods_arg)
    /\ UNCHANGED <<signals, warning_level, score, metric, files>>

InitTrend ==
    /\ files \in TrendStores
    /\ call = NoCall
    /\ result = NoObject
    /\ EwsIdle /\ ScoreIdle /\ MetricIdle

NextTrend == \E periods_arg \in PeriodArgs : AnalyzeTrend(TrendStock, periods_arg)

SpecTrend == InitTrend /\ [][NextTrend]_vars

\* the period labels the call works on
CallPeriods ==
    IF call.periods = <<>>
    THEN SortedSeq({p \in Periods : <<call.stock_code, p>> \in DOMAIN files})
    ELSE call.periods[1]

\* how many of them name a file that parses
LoadableCount ==
    Cardinality({i \in DOMAIN CallPeriods :
                    /\ <<call.stock_code, CallPeriods[i]>> \in DOMAIN files
                    /\ files[<<call.stock_code, CallPeriods[i]>>] # Corrupt})

\* C6: analyze_trend returns None whenever fewer than 2 snapshots load for
\* the requested (or all available) periods, it returns None or a
\* TrendAnalysis and nothing else, and every metric of a returned analysis
\* carries one value per loaded snapshot.
C6_TrendNeedsTwo ==
    call.service = "analyze_trend" =>
        /\ result.model \in {"None", "TrendAnalysis"}
        /\ (LoadableCount < 2 => result = NoObject)
        /\ (result.model = "TrendAnalysis" =>
                \A m \in DOMAIN result.metrics :
                    /\ Len(result.metrics[m].values) = LoadableCount
                    /\ Len(result.metrics[m].periods) = LoadableCount)

C6_Witness ==
    /\ call.service = "analyze_trend"
    /\ call.periods = << <<3, 1, 3>> >>
    /\ files = [k \in {<<TrendStock, 1>>, <<TrendStock, 3>>} |-> "healthy"]
    /\ result.model = "TrendAnalysis"
    /\ Len(result.metrics) = 7
    /\ result.metrics[1].periods = <<1, 3, 3>>

C6_WitnessNone ==
    /\ call.service = "analyze_trend"
    /\ call.periods = <<>>
    /\ Cardinality(DOMAIN files) = 3
    /\ LoadableCount = 1
    /\ result = NoObject

(***************************************************************************)
(* PeerService._compare_metric (app/services/peer_service.py) and          *)
(* PeerComparison (app/models/__init__.py).                                *)
(***************************************************************************)
PeerMetricNames ==
    <<"Gross Margin (%)", "Operating Margin (%)", "Net Margin (%)",
      "ROE (%)", "ROA (%)", "Debt Ratio (%)", "Current Ratio">>

PeerExtract(metric_name, s) ==
    CASE metric_name = "Gross Margin (%)" -> gross_margin(s)
      [] metric_name = "Operating Margin (%)" -> operating_margin(s)
      [] metric_name = "Net Margin (%)" -> net_margin(s)
      [] metric_name = "ROE (%)" -> roe(s)
      [] metric_name = "ROA (%)" -> roa(s)
      [] metric_name = "Debt Ratio (%)" -> debt_ratio(s)
      [] metric_name = "Current Ratio" ->
            IF current_ratio(s) # <<>> /\ current_ratio(s)[1] # RZero
            THEN current_ratio(s)[1] ELSE RZero

\* sorted(enumerate(values), key=value, reverse=higher_is_better) as the
\* list of indices: a stable sort, and reverse=True keeps equal values in
\* their input order
RECURSIVE InsertIndex(_, _, _, _)
InsertIndex(order, i, values, higher_is_better) ==
    IF order = <<>> THEN <<i>>
    ELSE IF (IF higher_is_better
             THEN RLess(values[Head(order)], values[i])
             ELSE RLess(values[i], values[Head(order)]))
         THEN <<i>> \o order
         ELSE <<Head(order)>>
              \o InsertIndex(Tail(order), i, values, higher_is_better)

RECURSIVE SortedIndices(_, _, _)
SortedIndices(values, n, higher_is_better) ==
    IF n = 0 THEN <<>>
    ELSE InsertIndex(SortedIndices(values, n - 1, higher_is_better),
                     n, values, higher_is_better)

Reverse(seq) == [i \in DOMAIN seq |-> seq[Len(seq) + 1 - i]]

\* values.index(v): the first position holding v
IndexOf(values, v) ==
    CHOOSE i \in DOMAIN values :
        values[i] = v /\ \A j \in 1..(i - 1) : values[j] # v

RMaxOf(values) ==
    CHOOSE v \in {values[i] : i \in DOMAIN values} :
        \A i \in DOMAIN values : RLeq(values[i], v)
RMinOf(values) ==
    CHOOSE v \in {values[i] : i \in DOMAIN values} :
        \A i \in DOMAIN values : RLeq(v, values[i])

best_performer(companies, values) ==
    IF values = <<>> THEN "N/A" ELSE companies[IndexOf(values, RMaxOf(values))]
worst_performer(companies, values) ==
    IF values = <<>> THEN "N/A" ELSE companies[IndexOf(values, RMinOf(values))]

PeerComparison(metric_name, companies, values, ranking) ==
    [model |-> "PeerComparison",
     metric_name |-> metric_name,
     companies |-> companies,
     values |-> values,
     ranking |-> ranking,
     best_performer |-> best_performer(companies, values),
     worst_performer |-> worst_performer(companies, values)]

\* sorts ascending and reverses the list for the descending order
compare_metric_reversed(metric_name, snapshots, higher_is_better) ==
    LET values == [i \in DOMAIN snapshots |->
                       PeerExtract(metric_name, snapshots[i])]
        ascending == SortedIndices(values, Len(values), FALSE)
        sorted_values == IF higher_is_better THEN Reverse(ascending)
                         ELSE ascending
    IN  PeerComparison(metric_name,
            [i \in DOMAIN snapshots |-> snapshots[i].company_name],
            values,
            [idx \in DOMAIN values |->
                CHOOSE rank \in DOMAIN sorted_values :
                    sorted_values[rank] = idx])

\* the extractor is named by the metric it reads
_compare_metric(metric_name, snapshots, higher_is_better) ==
    LET values == [i \in DOMAIN snapshots |->
                       PeerExtract(metric_name, snapshots[i])]
        sorted_values == SortedIndices(values, Len(values), higher_is_better)
    IN  PeerComparison(metric_name,
            [i \in DOMAIN snapshots |-> snapshots[i].company_name],
            values,
            [idx \in DOMAIN values |->
                CHOOSE rank \in DOMAIN sorted_values :
                    sorted_values[rank] = idx])

MaxCompanies == 4
PeriodNow == 1

\* the snapshots of companies 1..n, one profile each
SnapshotLists ==
    UNION {[1..n -> ProfileNames] : n \in 0..MaxCompanies}

CompareMetric(profiles, m, higher_is_better) ==
    /\ call = NoCall
    /\ call' = [service |-> "_compare_metric", profiles |-> profiles,
                metric_name |-> PeerMetricNames[m],
                higher_is_better |-> higher_is_better]
    /\ result' = _compare_metric(PeerMetricNames[m],
                     [i \in DOMAIN profiles |->
                          FinancialSnapshot(i, PeriodNow, profiles[i])],
                     higher_is_better)
    /\ UNCHANGED <<signals, warning_level, score, metric, files>>

InitPeer ==
    /\ files = <<>>
    /\ call = NoCall
    /\ result = NoObject
    /\ EwsIdle /\ ScoreIdle /\ MetricIdle

NextPeer ==
    \E profiles \in SnapshotLists, m \in DOMAIN PeerMetricNames,
       higher_is_better \in BOOLEAN :
        CompareMetric(profiles, m, higher_is_better)

SpecPeer == InitPeer /\ [][NextPeer]_vars

\* v is strictly better than w in the direction of the call
Better(v, w) ==
    IF call.higher_is_better THEN RLess(w, v) ELSE RLess(v, w)

\* C7: the ranking is a permutation of 1..n, a strictly better value has a
\* strictly lower rank number, and of two equal values the one earlier in
\* the input has the lower rank number, in both sort directions.
C7_Ranking ==
    call.service = "_compare_metric" =>
        LET n == Len(call.profiles)
            v == result.values
            r == result.ranking
        IN  /\ Len(v) = n /\ Len(r) = n
            /\ {r[i] : i \in 1..n} = 1..n
            /\ \A i, j \in 1..n :
                   /\ (Better(v[i], v[j]) => r[i] < r[j])
                   /\ (v[i] = v[j] /\ i < j => r[i] < r[j])

C7_Witness ==
    /\ call.service = "_compare_metric"
    /\ call.higher_is_better
    /\ result.values = <<RInt(0), RInt(50), RInt(25), RInt(50)>>
    /\ result.ranking = <<4, 1, 3, 2>>

C7_WitnessLower ==
    /\ call.service = "_compare_metric"
    /\ ~call.higher_is_better
    /\ result.metric_name = "Debt Ratio (%)"
    /\ result.values = <<RInt(50), RInt(0), RInt(50)>>
    /\ result.ranking = <<2, 1, 3>>

(***************************************************************************)
(* Factor z-scores (app/core/utils.py, app/services/factor_service.py).    *)
(*                                                                         *)
(* statistics.stdev is the square root of a rational variance, so a        *)
(* standard deviation is held as its square, [sq |-> variance], and a      *)
(* z-score as [num |-> d, sq |-> v], the real number d / sqrt(v); a        *)
(* z-score with a rational value has sq = 1.                               *)
(***************************************************************************)
RECURSIVE RSum(_)
RSum(xs) == IF xs = <<>> THEN RZero ELSE RAdd(Head(xs), RSum(Tail(xs)))

\* statistics.mean
mean(xs) == RDiv(RSum(xs), RInt(Len(xs)))

\* statistics.stdev, for two values or more: Bessel's correction
stdev(xs) ==
    LET m == mean(xs)
    IN  [sq |-> RDiv(RSum([i \in DOMAIN xs |->
                               RMul(RSub(xs[i], m), RSub(xs[i], m))]),
                     RInt(Len(xs) - 1))]

StdOne == [sq |-> RInt(1)]

\* floor of the square root
RECURSIVE ISqrt(_)
ISqrt(n) ==
    IF n < 2 THEN n
    ELSE LET s == 2 * ISqrt(n \div 4)
         IN  IF (s + 1) * (s + 1) <= n THEN s + 1 ELSE s

IsSquare(n) == ISqrt(n) * ISqrt(n) = n

\* d / sqrt(v), v > 0
ZQuotient(d, v) ==
    IF d = RZero THEN [num |-> RZero, sq |-> RInt(1)]
    ELSE IF IsSquare(v[1]) /\ IsSquare(v[2])
         THEN [num |-> RDiv(d, Rat(ISqrt(v[1]), ISqrt(v[2]))), sq |-> RInt(1)]
         ELSE [num |-> d, sq |-> v]

ZNumber(x) == [num |-> x, sq |-> RInt(1)]

\* substitutes 1.0 for a standard deviation of 0
calculate_z_score_std_one(value, mean_, std_dev) ==
    IF std_dev.sq = RZero THEN ZQuotient(RSub(value, mean_), RInt(1))
    ELSE ZQuotient(RSub(value, mean_), std_dev.sq)

calculate_z_score(value, mean_, std_dev) ==
    IF std_dev.sq = RZero THEN ZNumber(RZero)
    ELSE ZQuotient(RSub(value, mean_), std_dev.sq)

\* z > c and z < -c for a rational c > 0
ZAbove(z, c) ==
    /\ RLess(RZero, z.num)
    /\ RLess(RMul(RMul(c, c), z.sq), RMul(z.num, z.num))
ZBelow(z, c) ==
    /\ RLess(z.num, RZero)
    /\ RLess(RMul(RMul(c, c), z.sq), RMul(z.num, z.num))

\* round(z, 2) as a rational number of hundredths: the nearest hundredth,
\* the even one at an exact tie
round2(z) ==
    LET zz == RDiv(RMul(z.num, z.num), z.sq)
        k == (40000 * zz[1]) \div zz[2]
        s == ISqrt(k)
        up == (s + 1) \div 2
        tie == s % 2 = 1 /\ s * s = k /\ k * zz[2] = 40000 * zz[1]
        r == IF tie /\ up % 2 = 1 THEN up - 1 ELSE up
    IN  Rat(IF z.num[1] < 0 THEN -r ELSE r, 100)

\* [x for x in xs if x >= 0]
RECURSIVE NonNegative(_)
NonNegative(xs) ==
    IF xs = <<>> THEN <<>>
    ELSE (IF RLeq(RZero, Head(xs)) THEN <<Head(xs)>> ELSE <<>>)
         \o NonNegative(Tail(xs))

\* [x for x in xs if x > 0]
RECURSIVE Positive(_)
Positive(xs) ==
    IF xs = <<>> THEN <<>>
    ELSE (IF RLess(RZero, Head(xs)) THEN <<Head(xs)>> ELSE <<>>)
         \o Positive(Tail(xs))

\* the standard deviation a factor uses for its peer values
PeerStd(xs) == IF Len(xs) > 1 THEN stdev(xs) ELSE StdOne

quality_score(s) ==
    RSub(RAdd(roe(s), operating_margin(s)), RDiv(debt_ratio(s), RInt(2)))

_calculate_quality_factor(target, peers) ==
    LET target_score == quality_score(target)
        peer_scores == [i \in DOMAIN peers |-> quality_score(peers[i])]
    IN  calculate_z_score(target_score, mean(peer_scores), PeerStd(peer_scores))

\* keeps the peers with EPS of 0 as well
calculate_value_factor_keeps_zero(target, peers) ==
    LET peer_eps == NonNegative([i \in DOMAIN peers |-> RInt(peers[i].eps)])
    IN  IF peer_eps = <<>> THEN ZNumber(RZero)
        ELSE calculate_z_score(RInt(target.eps), mean(peer_eps),
                               PeerStd(peer_eps))

_calculate_value_factor(target, peers) ==
    LET peer_eps == Positive([i \in DOMAIN peers |-> RInt(peers[i].eps)])
    IN  IF peer_eps = <<>> THEN ZNumber(RZero)
        ELSE calculate_z_score(RInt(target.eps), mean(peer_eps),
                               PeerStd(peer_eps))

_calculate_momentum_factor(target, peers) ==
    LET peer_margins == [i \in DOMAIN peers |-> net_margin(peers[i])]
    IN  calculate_z_score(net_margin(target), mean(peer_margins),
                          PeerStd(peer_margins))

\* math.log in units of log 2, for the total assets of the profiles, all
\* powers of two.  The size factor always has three peer values or more,
\* so its standard deviation is never substituted, and (t - mean) / stdev
\* and the test stdev == 0 do not depend on the unit.
RECURSIVE Log2(_)
Log2(n) == IF n = 1 THEN 0 ELSE 1 + Log2(n \div 2)

LogSize(s) == IF s.total_assets > 0 THEN RInt(Log2(s.total_assets)) ELSE RZero

_calculate_size_factor(target, peers) ==
    LET peer_sizes == [i \in DOMAIN peers |-> LogSize(peers[i])]
    IN  calculate_z_score(LogSize(target), mean(peer_sizes), PeerStd(peer_sizes))

_calculate_volatility_factor(target, peers) ==
    LET peer_debts == [i \in DOMAIN peers |-> debt_ratio(peers[i])]
    IN  calculate_z_score(debt_ratio(target), mean(peer_debts),
                          PeerStd(peer_debts))

\* the parts of the commentary text, in order
_generate_commentary(quality, value, momentum, size, volatility) ==
    (IF ZAbove(quality, Rat(3, 2)) THEN <<"Strong quality profile">>
     ELSE IF ZAbove(quality, Rat(1, 2)) THEN <<"Above-average quality">>
     ELSE IF ZBelow(quality, Rat(3, 2)) THEN <<"Weak quality profile">>
     ELSE IF ZBelow(quality, Rat(1, 2)) THEN <<"Below-average quality">>
     ELSE <<>>)
    \o (IF ZAbove(value, RInt(1)) THEN <<"attractive valuation">>
        ELSE IF ZBelow(value, RInt(1)) THEN <<"expensive valuation">>
        ELSE <<>>)
    \o (IF ZAbove(momentum, RInt(1)) THEN <<"strong momentum">>
        ELSE IF ZBelow(momentum, RInt(1)) THEN <<"weak momentum">>
        ELSE <<>>)
    \o (IF ZAbove(size, Rat(3, 2)) THEN <<"large cap">>
        ELSE IF ZBelow(size, Rat(3, 2)) THEN <<"small cap">>
        ELSE <<"mid cap">>)
    \o (IF ZAbove(volatility, RInt(1)) THEN <<"higher volatility/risk">>
        ELSE IF ZBelow(volatility, RInt(1)) THEN <<"lower volatility/risk">>
        ELSE <<>>)

\* DataLoader.list_all_stocks: the codes of all files, parsing or not
list_all_stocks == SortedSeq({k[1] : k \in DOMAIN files})

\* [s for s in xs if s != stock_code]
RECURSIVE Without(_, _)
Without(xs, stock_code) ==
    IF xs = <<>> THEN <<>>
    ELSE (IF Head(xs) # stock_code THEN <<Head(xs)>> ELSE <<>>)
         \o Without(Tail(xs), stock_code)

\* xs[:n]
Take(xs, n) == SubSeq(xs, 1, IF Len(xs) < n THEN Len(xs) ELSE n)

MaxUniverse == 20
MinPeers == 3

\* the snapshots of the codes that load, in order
RECURSIVE LoadPeers(_, _)
LoadPeers(peer_stocks, period) ==
    IF peer_stocks = <<>> THEN <<>>
    ELSE load_snapshot(Head(peer_stocks), period)
         \o LoadPeers(Tail(peer_stocks), period)

FactorExposures(target, peers) ==
    LET quality_z == _calculate_quality_factor(target, peers)
        value_z == _calculate_value_factor(target, peers)
        momentum_z == _calculate_momentum_factor(target, peers)
        size_z == _calculate_size_factor(target, peers)
        volatility_z == _calculate_volatility_factor(target, peers)
    IN  [model |-> "FactorExposures",
         quality |-> round2(quality_z),
         value |-> round2(value_z),
         momentum |-> round2(momentum_z),
         size |-> round2(size_z),
         volatility |-> round2(volatility_z),
         commentary |-> _generate_commentary(quality_z, value_z, momentum_z,
                                             size_z, volatility_z),
         details |-> [peer_count |-> Len(peers),
                      target_roe |-> roe(target),
                      target_total_assets |-> target.total_assets]]

\* the peer list the call works on
EffectivePeers(stock_code, peer_arg) ==
    IF peer_arg = <<>> \/ Len(peer_arg[1]) < MinPeers
    THEN Take(Without(list_all_stocks, stock_code), MaxUniverse)
    ELSE peer_arg[1]

calculate_exposures(stock_code, period, peer_arg) ==
    LET target == load_snapshot(stock_code, period)
        peers == LoadPeers(EffectivePeers(stock_code, peer_arg), period)
    IN  IF target = <<>> THEN NoObject
        ELSE IF Len(peers) < MinPeers THEN NoObject
        ELSE FactorExposures(target[1], peers)

Stocks == {1, 2, 3, 4}
MaxPeerArgs == 3

\* every store holding at most one file per stock, all of the same period
FactorStores ==
    UNION {[{<<c, PeriodNow>> : c \in C} -> ProfileNames] : C \in SUBSET Stocks}

\* None, or a list of distinct codes in ascending order
PeerArgs ==
    {<<>>} \cup {<<SortedSeq(C)>> :
                    C \in {D \in SUBSET Stocks : Cardinality(D) <= MaxPeerArgs}}

CalculateExposures(stock_code, peer_arg) ==
    /\ call = NoCall
    /\ call' = [service |-> "calculate_exposures", stock_code |-> stock_code,
                period |-> PeriodNow, peer_stocks |-> peer_arg]
    /\ result' = calculate_exposures(stock_code, PeriodNow, peer_arg)
    /\ UNCHANGED <<signals, warning_level, score, metric, files>>

InitFactor ==
    /\ files \in FactorStores
    /\ call = NoCall
    /\ result = NoObject
    /\ EwsIdle /\ ScoreIdle /\ MetricIdle

NextFactor ==
    \E stock_code \in Stocks, peer_arg \in PeerArgs :
        CalculateExposures(stock_code, peer_arg)

SpecFactor == InitFactor /\ [][NextFactor]_vars

IsFactorCall == call.service = "calculate_exposures"
IsExposures == result.model = "FactorExposures"

\* the snapshots that load for the codes the caller supplied
SuppliedPeers == LoadPeers(call.peer_stocks[1], call.period)

\* the target snapshot and the peer snapshots the call worked on
CallTarget == load_snapshot(call.stock_code, call.period)[1]
CallPeers ==
    LoadPeers(EffectivePeers(call.stock_code, call.peer_stocks), call.period)

\* C8: a call whose caller names peers returns None whenever fewer than 3
\* of the named peers have a snapshot for the period, and what it returns
\* is computed from the named peers and no others.
C8_CallerPeerSet ==
    (IsFactorCall /\ call.peer_stocks # <<>> /\ call.peer_stocks[1] # <<>>) =>
        /\ (Len(SuppliedPeers) < 3 => result = NoObject)
        /\ (IsExposures =>
                /\ result.details.peer_count = Len(SuppliedPeers)
                /\ result = FactorExposures(CallTarget, SuppliedPeers))

AllEqual(xs) == \A i, j \in DOMAIN xs : xs[i] = xs[j]

\* the value the claim gives a factor whose peer values xs are all equal
\* or a single one: target minus peer mean, and the value the code gives
DegenerateAsClaimed(f, target_value, xs) ==
    AllEqual(xs) =>
        result[f] = round2(ZNumber(RSub(target_value, mean(xs))))
DegenerateAsCoded(f, target_value, xs) ==
    /\ (Len(xs) = 1 =>
            result[f] = round2(ZNumber(RSub(target_value, xs[1]))))
    /\ (Len(xs) >= 2 /\ AllEqual(xs) => result[f] = RZero)

QualityValues == [i \in DOMAIN CallPeers |-> quality_score(CallPeers[i])]
MarginValues == [i \in DOMAIN CallPeers |-> net_margin(CallPeers[i])]
DebtValues == [i \in DOMAIN CallPeers |-> debt_ratio(CallPeers[i])]
\* the EPS of the peers with EPS > 0
UsableEps ==
    LET idx == SortedSeq({i \in DOMAIN CallPeers : CallPeers[i].eps > 0})
    IN  [k \in DOMAIN idx |-> RInt(CallPeers[idx[k]].eps)]

C11_PeersExcludeTarget ==
    (IsFactorCall /\ IsExposures) =>
        \A i \in DOMAIN CallPeers :
            CallPeers[i].stock_code # call.stock_code

(***************************************************************************)
(* ROIC vs WACC (app/services/roic_wacc_service.py).  Rates are exact      *)
(* rationals; round(x, 2) rounds to hundredths, an exact tie to the even   *)
(* hundredth.                                                              *)
(***************************************************************************)
\* round(x, ndigits) of a number, scale = 10^ndigits
RoundTo(x, scale) ==
    LET n == Abs(x[1]) * scale
        q == n \div x[2]
        rem == n % x[2]
        r == IF 2 * rem > x[2] THEN q + 1
             ELSE IF 2 * rem < x[2] THEN q
             ELSE IF q % 2 = 0 THEN q ELSE q + 1
    IN  Rat(IF x[1] < 0 THEN -r ELSE r, scale)

Round1(x) == RoundTo(x, 10)
Round2(x) == RoundTo(x, 100)

\* Settings defaults
default_risk_free_rate == Rat(2, 100)
default_market_risk_premium == Rat(6, 100)
default_beta == RInt(1)
default_tax_rate == Rat(2, 10)

\* a guard that answers 1 for a zero denominator
safe_divide_default_one(numerator, denominator) ==
    IF denominator = RZero THEN RInt(1) ELSE RDiv(numerator, denominator)

safe_divide(numerator, denominator) ==
    IF denominator = RZero THEN RZero ELSE RDiv(numerator, denominator)

_calculate_nopat(snapshot, tax_rate) ==
    RMul(RInt(snapshot.operating_income), RSub(RInt(1), tax_rate))

_calculate_invested_capital(snapshot) ==
    RInt(snapshot.equity + snapshot.total_liabilities)

_calculate_cost_of_equity(beta) ==
    RAdd(default_risk_free_rate, RMul(beta, default_market_risk_premium))

_estimate_cost_of_debt(snapshot) ==
    LET ratio == RDiv(debt_ratio(snapshot), RInt(100))
        base_rate == Rat(3, 100)
        leverage_spread == RMul(ratio, Rat(5, 100))
    IN  RAdd(base_rate, leverage_spread)

\* the sentences of the commentary, each named by its opening words
roic_generate_commentary(roic_, wacc_, snapshot) ==
    LET spread == RSub(roic_, wacc_)
        creation ==
            IF RLess(RInt(5), spread) THEN "Strong value creation"
            ELSE IF RLess(RInt(2), spread) THEN "Positive value creation"
            ELSE IF RLess(RZero, spread) THEN "Marginal value creation"
            ELSE IF RLess(RInt(-2), spread) THEN "Value neutral"
            ELSE "Value destruction"
        efficiency ==
            IF RLeq(RInt(15), roic_) THEN "Highly efficient capital allocation"
            ELSE IF RLeq(RInt(10), roic_) THEN "Good capital efficiency"
            ELSE IF RLeq(RInt(5), roic_) THEN "Moderate capital efficiency"
            ELSE "Poor capital efficiency"
        leverage ==
            IF RLess(RInt(60), debt_ratio(snapshot)) THEN <<"High leverage">>
            ELSE IF RLess(debt_ratio(snapshot), RInt(30))
                 THEN <<"Conservative capital structure">>
                 ELSE <<>>
    IN  <<creation, efficiency>> \o leverage

\* a constructor that lets keywords override the two computed fields
ROICWACCAnalysis_settable(kw) ==
    [model |-> "ROICWACCAnalysis",
     nopat |-> kw.nopat,
     invested_capital |-> kw.invested_capital,
     roic |-> kw.roic,
     cost_of_equity |-> kw.cost_of_equity,
     cost_of_debt |-> kw.cost_of_debt,
     wacc |-> kw.wacc,
     value_creation_gap |-> IF kw.value_creation_gap # <<>>
                            THEN kw.value_creation_gap[1]
                            ELSE RSub(kw.roic, kw.wacc),
     is_value_creating |-> IF kw.is_value_creating # <<>>
                           THEN kw.is_value_creating[1]
                           ELSE RLess(kw.wacc, kw.roic),
     commentary |-> kw.commentary,
     assumptions |-> kw.assumptions]

\* ROICWACCAnalysis(**kw): the two computed fields are evaluated from the
\* stored roic and wacc; keywords that name no field are ignored
ROICWACCAnalysis(kw) ==
    [model |-> "ROICWACCAnalysis",
     nopat |-> kw.nopat,
     invested_capital |-> kw.invested_capital,
     roic |-> kw.roic,
     cost_of_equity |-> kw.cost_of_equity,
     cost_of_debt |-> kw.cost_of_debt,
     wacc |-> kw.wacc,
     value_creation_gap |-> RSub(kw.roic, kw.wacc),
     is_value_creating |-> RLess(kw.wacc, kw.roic),
     commentary |-> kw.commentary,
     assumptions |-> kw.assumptions]

\* ROICWACCService.analyze; an absent optional argument is <<>>
analyze(stock_code, period, market_beta_arg, cost_of_debt_arg, tax_rate_arg) ==
    LET loaded == load_snapshot(stock_code, period)
        snapshot == loaded[1]
        market_beta == IF market_beta_arg = <<>> THEN default_beta
                       ELSE market_beta_arg[1]
        tax_rate == IF tax_rate_arg = <<>> THEN default_tax_rate
                    ELSE tax_rate_arg[1]
        nopat == _calculate_nopat(snapshot, tax_rate)
        invested_capital == _calculate_invested_capital(snapshot)
        roic_ == RMul(safe_divide(nopat, invested_capital), RInt(100))
        cost_of_equity == _calculate_cost_of_equity(market_beta)
        cost_of_debt == IF cost_of_debt_arg = <<>>
                        THEN _estimate_cost_of_debt(snapshot)
                        ELSE cost_of_debt_arg[1]
        after_tax_cost_of_debt == RMul(cost_of_debt, RSub(RInt(1), tax_rate))
        total_capital == RInt(snapshot.equity + snapshot.total_liabilities)
        equity_weight == safe_divide(RInt(snapshot.equity), total_capital)
        debt_weight ==
            safe_divide(RInt(snapshot.total_liabilities), total_capital)
        wacc_ == RMul(RAdd(RMul(equity_weight, cost_of_equity),
                           RMul(debt_weight, after_tax_cost_of_debt)),
                      RInt(100))
    IN  IF loaded = <<>> THEN NoObject
        ELSE ROICWACCAnalysis(
                [nopat |-> Round2(nopat),
                 invested_capital |-> Round2(invested_capital),
                 roic |-> Round2(roic_),
                 cost_of_equity |-> Round2(RMul(cost_of_equity, RInt(100))),
                 cost_of_debt |->
                     Round2(RMul(after_tax_cost_of_debt, RInt(100))),
                 wacc |-> Round2(wacc_),
                 value_creation_gap |-> <<>>,
                 is_value_creating |-> <<>>,
                 commentary |-> roic_generate_commentary(roic_, wacc_, snapshot),
                 assumptions |->
                     [beta |-> market_beta,
                      risk_free_rate |->
                          RMul(default_risk_free_rate, RInt(100)),
                      market_risk_premium |->
                          RMul(default_market_risk_premium, RInt(100)),
                      tax_rate |-> RMul(tax_rate, RInt(100)),
                      cost_of_debt_pretax |-> RMul(cost_of_debt, RInt(100)),
                      equity_weight |-> RMul(equity_weight, RInt(100)),
                      debt_weight |-> RMul(debt_weight, RInt(100))]])

\* the store holds one file of the stock for the period, or none
RoicStores ==
    {[k \in {} |-> Corrupt]}
        \cup [{<<TrendStock, PeriodNow>>} -> FileContents]

BetaArgs == {<<>>, <<RZero>>, <<RInt(2)>>}
CostOfDebtArgs == {<<>>, <<RZero>>, <<Rat(5, 100)>>}
TaxRateArgs == {<<>>, <<RZero>>, <<Rat(3, 5)>>, <<RInt(1)>>}

Analyze(market_beta, cost_of_debt, tax_rate) ==
    /\ call = NoCall
    /\ call' = [service |-> "analyze", stock_code |-> TrendStock,
                period |-> PeriodNow, market_beta |-> market_beta,
                cost_of_debt |-> cost_of_debt, tax_rate |-> tax_rate]
    /\ result' = analyze(TrendStock, PeriodNow, market_beta, cost_of_debt,
                         tax_rate)
    /\ UNCHANGED <<signals, warning_level, score, metric, files>>

\* percentages tried for the stored roic and wacc
RateArgs == {RInt(-3), RZero, RInt(8), RInt(10), Rat(1001, 100)}
\* an extra keyword naming a computed field: absent, or a value
GapArgs == {<<>>, <<RInt(2)>>}
FlagArgs == {<<>>, <<TRUE>>, <<FALSE>>}

\* ROICWACCAnalysis(...) built directly, as the tests do
BuildROICWACCAnalysis(roic_, wacc_, gap, flag) ==
    /\ call = NoCall
    /\ call' = [service |-> "ROICWACCAnalysis", roic |-> roic_, wacc |-> wacc_,
                value_creation_gap |-> gap, is_value_creating |-> flag]
    /\ result' = ROICWACCAnalysis(
                    [nopat |-> RInt(100000),
                     invested_capital |-> RInt(1000000),
                     roic |-> roic_,
                     cost_of_equity |-> RInt(8),
                     cost_of_debt |-> RInt(4),
                     wacc |-> wacc_,
                     value_creation_gap |-> gap,
                     is_value_creating |-> flag,
                     commentary |-> <<>>,
                     assumptions |-> <<>>])
    /\ UNCHANGED <<signals, warning_level, score, metric, files>>

InitRoic ==
    /\ files \in RoicStores
    /\ call = NoCall
    /\ result = NoObject
    /\ EwsIdle /\ ScoreIdle /\ MetricIdle

NextRoic ==
    \/ \E market_beta \in BetaArgs, cost_of_debt \in CostOfDebtArgs,
          tax_rate \in TaxRateArgs :
           Analyze(market_beta, cost_of_debt, tax_rate)
    \/ \E roic_, wacc_ \in RateArgs, gap \in GapArgs, flag \in FlagArgs :
           BuildROICWACCAnalysis(roic_, wacc_, gap, flag)

SpecRoic == InitRoic /\ [][NextRoic]_vars

IsAnalyzeCall == call.service = "analyze"
IsAnalysis == result.model = "ROICWACCAnalysis"
\* the snapshot and the tax rate the analysis worked on
AnalyzeSnapshot == load_snapshot(call.stock_code, call.period)[1]
AnalyzeTaxRate ==
    IF call.tax_rate = <<>> THEN Rat(20, 100) ELSE call.tax_rate[1]
AnalyzeNopat ==
    RMul(RInt(AnalyzeSnapshot.operating_income), RSub(RInt(1), AnalyzeTaxRate))
AnalyzeCapital == AnalyzeSnapshot.equity + AnalyzeSnapshot.total_liabilities

\* C12: an analysis reports NOPAT = operating income * (1 - tax rate),
\* invested capital = equity + total liabilities and ROIC = NOPAT /
\* invested capital * 100, each rounded to hundredths, and ROIC 0 when
\* invested capital is 0; a call whose snapshot loads always returns an
\* analysis.
C12_Roic ==
    IsAnalyzeCall =>
        IF load_snapshot(call.stock_code, call.period) = <<>>
        THEN result = NoObject
        ELSE /\ IsAnalysis
             /\ result.nopat = Round2(AnalyzeNopat)
             /\ result.invested_capital = RInt(AnalyzeCapital)
             /\ result.roic =
                    IF AnalyzeCapital = 0 THEN RZero
                    ELSE Round2(RMul(RDiv(AnalyzeNopat, RInt(AnalyzeCapital)),
                                     RInt(100)))

\* invested capital 0 gives ROIC 0
C12_Witness ==
    /\ IsAnalyzeCall /\ IsAnalysis
    /\ AnalyzeCapital = 0
    /\ result.roic = RZero

\* NOPAT one tenth of invested capital gives ROIC 10.0
C12_WitnessTenth ==
    /\ IsAnalyzeCall /\ IsAnalysis
    /\ AnalyzeCapital # 0
    /\ RMul(AnalyzeNopat, RInt(10)) = RInt(AnalyzeCapital)
    /\ result.roic = RInt(10)

\* the rates of the analysis, as fractions
AnalyzeCostOfEquity ==
    RAdd(Rat(2, 100),
         RMul(IF call.market_beta = <<>> THEN RInt(1) ELSE call.market_beta[1],
              Rat(6, 100)))
AnalyzeAfterTaxCostOfDebt ==
    RMul(RDiv(result.assumptions.cost_of_debt_pretax, RInt(100)),
         RSub(RInt(1), AnalyzeTaxRate))

\* C13: in every analysis the equity weight is equity / (equity +
\* liabilities), the two weights of the assumptions sum to 100%, and WACC
\* is equity weight * cost of equity + debt weight * after-tax cost of
\* debt, a snapshot whose equity + liabilities is 0 included.
C13_WeightsSumToOne ==
    (IsAnalyzeCall /\ IsAnalysis) =>
        LET ew == result.assumptions.equity_weight
            dw == result.assumptions.debt_weight
        IN  /\ RAdd(ew, dw) = RInt(100)
            /\ (AnalyzeCapital # 0 =>
                    ew = Percent(AnalyzeSnapshot.equity, AnalyzeCapital))
            /\ result.wacc =
                   Round2(RAdd(RMul(ew, AnalyzeCostOfEquity),
                               RMul(dw, AnalyzeAfterTaxCostOfDebt)))

\* C14: every ROICWACCAnalysis has value_creation_gap = roic - wacc and
\* is_value_creating true exactly when the gap is above 0, whatever
\* keywords it was built with.
C14_GapDerived ==
    IsAnalysis =>
        /\ result.value_creation_gap = RSub(result.roic, result.wacc)
        /\ result.is_value_creating =
               RLess(RZero, result.value_creation_gap)
        /\ (result.roic = result.wacc => ~result.is_value_creating)

\* built with roic equal to wacc and keywords asking for a gap of 2 and a
\* true flag
C14_Witness ==
    /\ IsAnalysis
    /\ call.service = "ROICWACCAnalysis"
    /\ call.roic = call.wacc
    /\ call.value_creation_gap = <<RInt(2)>>
    /\ call.is_value_creating = <<TRUE>>
    /\ result.value_creation_gap = RZero
    /\ result.is_value_creating = FALSE

(***************************************************************************)
(* Management quality score (app/services/management_service.py).          *)
(***************************************************************************)
\* Settings defaults
management_tenure_good == 3
management_tenure_excellent == 5

RMin(x, y) == IF RLess(x, y) THEN x ELSE y
RMax(x, y) == IF RLess(x, y) THEN y ELSE x

normalize_score(value, min_val, max_val) ==
    IF max_val = min_val THEN RInt(50)
    ELSE LET normalized ==
                 RMul(RDiv(RSub(value, min_val), RSub(max_val, min_val)),
                      RInt(100))
         IN  RMax(RZero, RMin(RInt(100), normalized))

\* gives 60 over the whole of the upper segment
score_tenure_flat(avg_tenure) ==
    IF RLeq(RInt(management_tenure_excellent), avg_tenure) THEN RInt(100)
    ELSE IF RLeq(RInt(management_tenure_good), avg_tenure) THEN RInt(60)
    ELSE RMul(RDiv(avg_tenure, RInt(management_tenure_good)), RInt(60))

_score_tenure(avg_tenure) ==
    IF RLeq(RInt(management_tenure_excellent), avg_tenure) THEN RInt(100)
    ELSE IF RLeq(RInt(management_tenure_good), avg_tenure)
         THEN RAdd(RInt(60),
                   RDiv(RMul(RInt(40),
                             RSub(avg_tenure, RInt(management_tenure_good))),
                        RInt(management_tenure_excellent
                                 - management_tenure_good)))
         ELSE RMul(RDiv(avg_tenure, RInt(management_tenure_good)), RInt(60))

_score_board_independence(independence_ratio, family_controlled) ==
    LET base_score == normalize_score(independence_ratio, RZero, Rat(1, 2))
    IN  IF family_controlled THEN RMul(base_score, Rat(7, 10)) ELSE base_score

_score_insider_alignment(buys, sells) ==
    LET net == buys - sells
    IN  IF net >= 5 THEN RInt(100)
        ELSE IF net >= 2 THEN RInt(80)
        ELSE IF net >= 0 THEN RInt(60)
        ELSE IF net >= -2 THEN RInt(40)
        ELSE IF net >= -5 THEN RInt(20)
        ELSE RZero

\* gives 0 from the third red flag on
score_governance_three_is_zero(red_flags) ==
    IF red_flags = 0 THEN RInt(100)
    ELSE IF red_flags = 1 THEN RInt(70)
    ELSE IF red_flags = 2 THEN RInt(40)
    ELSE RZero

_score_governance(red_flags) ==
    IF red_flags = 0 THEN RInt(100)
    ELSE IF red_flags = 1 THEN RInt(70)
    ELSE IF red_flags = 2 THEN RInt(40)
    ELSE RMax(RZero, RInt(40 - (red_flags - 2) * 20))

\* the sentences of the commentary, each named by its opening words
management_generate_commentary(tenure_score, board_score, buys, sells, red_flags) ==
    LET net == buys - sells
    IN  << IF RLeq(RInt(80), tenure_score) THEN "Experienced management team"
           ELSE IF RLeq(RInt(60), tenure_score) THEN "Stable management"
           ELSE "Limited tenure",
           IF RLeq(RInt(70), board_score) THEN "Strong board independence"
           ELSE IF RLeq(RInt(50), board_score)
                THEN "Moderate board independence"
                ELSE "Weak board independence",
           IF net > 0 THEN "Insider buying"
           ELSE IF net < 0 THEN "Insider selling"
           ELSE "Neutral insider activity",
           IF red_flags = 0 THEN "Clean governance record"
           ELSE IF red_flags <= 2 THEN "governance concern(s)"
           ELSE "Multiple governance red flags" >>

\* ManagementService.calculate_score; a is the record of its arguments.  The
\* commentary and the details are built before the constructor validates.
calculate_score(a) ==
    LET avg_tenure ==
            RDiv(RAdd(a.ceo_tenure_years, a.cfo_tenure_years), RInt(2))
        tenure_score == _score_tenure(avg_tenure)
        independence_ratio ==
            IF a.total_directors > 0
            THEN Rat(a.independent_directors, a.total_directors)
            ELSE a.board_independence_ratio
        board_score ==
            _score_board_independence(independence_ratio, a.family_controlled)
        insider_score ==
            _score_insider_alignment(a.insider_buys, a.insider_sells)
        total_red_flags == a.governance_incidents + a.audit_issues
                               + a.related_party_transactions
        governance_score == _score_governance(total_red_flags)
        built == ManagementScore(
                    [tenure_stability |-> Round2(tenure_score),
                     board_independence |-> Round2(board_score),
                     insider_alignment |-> Round2(insider_score),
                     governance_red_flags |-> Round2(governance_score),
                     total |-> <<>>])
    IN  IF built = ValidationError THEN ValidationError
        ELSE [model |-> "ManagementScore",
              tenure_stability |-> built.tenure_stability,
              board_independence |-> built.board_independence,
              insider_alignment |-> built.insider_alignment,
              governance_red_flags |-> built.governance_red_flags,
              total |-> built.total,
              commentary |->
                  management_generate_commentary(
                      tenure_score, board_score, a.insider_buys,
                      a.insider_sells, total_red_flags),
              details |->
                  [avg_tenure_years |-> Round1(avg_tenure),
                   board_independence_ratio |-> Round2(independence_ratio),
                   insider_net_activity |-> a.insider_buys - a.insider_sells,
                   total_red_flags |-> total_red_flags]]

MaxTenure == 6
MaxIncidents == 3

\* CEO and CFO tenures in whole years, the CFO's equal to the CEO's or a
\* year less (one year below 0 included)
TenureArgs == {<<RInt(c), RInt(c - d)>> : c \in 0..MaxTenure, d \in 0..1}
RatioArgs == {RZero, Rat(3, 10), RInt(1)}
\* independent_directors and total_directors
DirectorArgs == {<<0, 0>>, <<1, 3>>}
BuyArgs == {0, 5}
SellArgs == {0, 3, 6}
IncidentArgs == -2..MaxIncidents
IssueArgs == 0..1

CalculateManagementScore(a) ==
    /\ call = NoCall
    /\ call' = [service |-> "calculate_score", args |-> a]
    /\ result' = calculate_score(a)
    /\ UNCHANGED <<signals, warning_level, score, metric, files>>

InitManagement ==
    /\ call = NoCall
    /\ result = NoObject
    /\ files = NotUsed
    /\ EwsIdle /\ ScoreIdle /\ MetricIdle

NextManagement ==
    /\ call = NoCall
    /\ \E tenure \in TenureArgs, ratio \in RatioArgs, d \in DirectorArgs,
          family \in BOOLEAN, buys \in BuyArgs, sells \in SellArgs,
          incidents \in IncidentArgs, issues, related \in IssueArgs :
        CalculateManagementScore(
            [ceo_tenure_years |-> tenure[1],
             cfo_tenure_years |-> tenure[2],
             board_independence_ratio |-> ratio,
             independent_directors |-> d[1], total_directors |-> d[2],
             family_controlled |-> family,
             insider_buys |-> buys, insider_sells |-> sells,
             governance_incidents |-> incidents, audit_issues |-> issues,
             related_party_transactions |-> related])

SpecManagement == InitManagement /\ [][NextManagement]_vars

IsManagementCall == call.service = "calculate_score"
IsManagementScore == result.model = "ManagementScore"
CallAvgTenure ==
    RDiv(RAdd(call.args.ceo_tenure_years, call.args.cfo_tenure_years), RInt(2))
CallRedFlags ==
    call.args.governance_incidents + call.args.audit_issues
        + call.args.related_party_transactions

\* the ramp of the claim for thresholds good and excellent
Ramp(t, good, excellent) ==
    IF RLess(t, RInt(good)) THEN Rat(60 * t[1], good * t[2])
    ELSE IF RLess(t, RInt(excellent))
         THEN RAdd(RInt(60),
                   RDiv(RMul(RInt(40), RSub(t, RInt(good))),
                        RInt(excellent - good)))
         ELSE RInt(100)

\* average tenures from 0 in steps of a half
TenureGrid == {Rat(h, 2) : h \in 0..(2 * MaxTenure)}

\* C15: for an average tenure t >= 0 the tenure-stability score is the
\* two-segment ramp (60 t / good, then 60 + 40 (t - good) / (excellent -
\* good), then 100), which is non-decreasing in t and continuous at both
\* thresholds; tenures 5 and 4 give 90.0.
C15_TenureRamp ==
    /\ \A t \in TenureGrid : _score_tenure(t) = Ramp(t, 3, 5)
    /\ \A t1, t2 \in TenureGrid :
           RLeq(t1, t2) => RLeq(_score_tenure(t1), _score_tenure(t2))
    /\ _score_tenure(RInt(3)) = RInt(60)
    /\ Rat(60 * 3, 3) = RInt(60)
    /\ _score_tenure(RInt(5)) = RInt(100)
    /\ RAdd(RInt(60), RDiv(RMul(RInt(40), RInt(5 - 3)), RInt(5 - 3)))
           = RInt(100)
    /\ ((IsManagementCall /\ IsManagementScore
             /\ RLeq(RZero, CallAvgTenure)) =>
            result.tenure_stability = Round2(Ramp(CallAvgTenure, 3, 5)))
    /\ ((IsManagementCall /\ IsManagementScore
             /\ call.args.ceo_tenure_years = RInt(5)
             /\ call.args.cfo_tenure_years = RInt(4)) =>
            result.tenure_stability = RInt(90))

\* tenures 5 and 4 score 90.0
C15_Witness ==
    /\ IsManagementCall /\ IsManagementScore
    /\ call.args.ceo_tenure_years = RInt(5)
    /\ call.args.cfo_tenure_years = RInt(4)
    /\ CallAvgTenure = Rat(9, 2)
    /\ result.tenure_stability = RInt(90)

\* the governance score of the claim for a red-flag count n >= 0
Stepped(n) ==
    IF n = 0 THEN 100
    ELSE IF n = 1 THEN 70
    ELSE IF n = 2 THEN 40
    ELSE IF 40 - 20 * (n - 2) > 0 THEN 40 - 20 * (n - 2) ELSE 0

\* red-flag counts from 0
FlagGrid == 0..(MaxIncidents + 2)

C17_ComponentsInRange ==
    IsManagementCall =>
        /\ IsManagementScore
        /\ \A f \in {"tenure_stability", "board_independence",
                     "insider_alignment", "governance_red_flags"} :
               RLeq(RZero, result[f]) /\ RLeq(result[f], RInt(100))

(***************************************************************************)
(* Earnings quality score (app/services/earnings_quality_service.py).  A   *)
(* scorer returns its score and the red flags it raised; a flag is named   *)
(* by its opening words.                                                   *)
(***************************************************************************)
\* Settings defaults
accrual_ratio_threshold == Rat(1, 10)
working_capital_spike_threshold == Rat(15, 100)
one_off_income_threshold == Rat(2, 10)

\* seq[-n:]
LastN(seq, n) ==
    IF Len(seq) <= n THEN seq ELSE SubSeq(seq, Len(seq) - n + 1, Len(seq))

RAbs(x) == IF x[1] < 0 THEN <<-x[1], x[2]>> ELSE x

\* "not snapshot.operating_cash_flow": None and 0.0 are both false
_calculate_accrual_ratio(snapshot) ==
    IF snapshot.operating_cash_flow = <<>>
           \/ snapshot.operating_cash_flow = <<0>>
           \/ snapshot.total_assets = 0
    THEN RZero
    ELSE Rat(snapshot.net_income - snapshot.operating_cash_flow[1],
             snapshot.total_assets)

_score_accrual_quality(snapshot) ==
    LET accrual_ratio == RAbs(_calculate_accrual_ratio(snapshot))
        threshold == accrual_ratio_threshold
    IN  IF RLeq(RMul(threshold, RInt(2)), accrual_ratio)
        THEN [score |-> RInt(20), flags |-> <<"Very high accruals">>]
        ELSE IF RLeq(threshold, accrual_ratio)
        THEN [score |-> RInt(50), flags |-> <<"Elevated accruals">>]
        ELSE IF RLeq(RMul(threshold, Rat(1, 2)), accrual_ratio)
        THEN [score |-> RInt(75), flags |-> <<>>]
        ELSE [score |-> RInt(100), flags |-> <<>>]

\* (current - previous) / previous if previous > 0 else 0
GrowthOver(current, previous) ==
    IF previous > 0 THEN Rat(current - previous, previous) ELSE RZero

\* the working-capital scorer from the previous period on
WorkingCapitalAgainst(current, previous) ==
    LET revenue_growth == GrowthOver(current.net_revenue, previous.net_revenue)
        receivable_growth ==
            GrowthOver(current.accounts_receivable, previous.accounts_receivable)
        inventory_growth == GrowthOver(current.inventory, previous.inventory)
        limit == RAdd(revenue_growth, working_capital_spike_threshold)
        ar == RLess(limit, receivable_growth)
        inv == RLess(limit, inventory_growth)
        left == RInt(100 - (IF ar THEN 25 ELSE 0) - (IF inv THEN 25 ELSE 0))
    IN  [score |-> RMax(RZero, left),
         flags |-> (IF ar THEN <<"Receivables growing faster than revenue">>
                    ELSE <<>>)
                   \o (IF inv THEN <<"Inventory growing faster than revenue">>
                       ELSE <<>>)]

\* scores against the only historical snapshot when there is just one
score_working_capital_one_is_enough(current, historical) ==
    IF Len(historical) < 1 THEN [score |-> RInt(50), flags |-> <<>>]
    ELSE WorkingCapitalAgainst(current,
             IF Len(historical) >= 2 THEN historical[Len(historical) - 1]
             ELSE historical[Len(historical)])

_score_working_capital(current, historical) ==
    IF Len(historical) < 2 THEN [score |-> RInt(50), flags |-> <<>>]
    ELSE WorkingCapitalAgainst(current, historical[Len(historical) - 1])

_score_one_off_dependency(snapshot) ==
    IF snapshot.net_income = 0 THEN [score |-> RInt(50), flags |-> <<>>]
    ELSE LET non_operating == snapshot.net_income - snapshot.operating_income
             oneoff_ratio == Rat(Abs(non_operating), Abs(snapshot.net_income))
             threshold == one_off_income_threshold
         IN  IF RLeq(RMul(threshold, RInt(2)), oneoff_ratio)
             THEN [score |-> RInt(20),
                   flags |-> <<"High non-operating income dependency">>]
             ELSE IF RLeq(threshold, oneoff_ratio)
             THEN [score |-> RInt(50),
                   flags |-> <<"Moderate non-operating income">>]
             ELSE IF RLeq(RMul(threshold, Rat(1, 2)), oneoff_ratio)
             THEN [score |-> RInt(75), flags |-> <<>>]
             ELSE [score |-> RInt(100), flags |-> <<>>]

\* a coefficient of variation std_dev / mean is held as its sign and its
\* square
NoVolatility == [negative |-> FALSE, sq |-> RZero]

calculate_volatility(values) ==
    IF Len(values) < 2 THEN NoVolatility
    ELSE IF mean(values) = RZero THEN NoVolatility
    ELSE LET m == mean(values)
             ratio == RDiv(stdev(values).sq, RMul(m, m))
         IN  [negative |-> RLess(m, RZero) /\ ratio # RZero, sq |-> ratio]

\* volatility <= c, for c > 0
VolatilityAtMost(volatility, c) ==
    volatility.negative \/ RLeq(volatility.sq, RMul(c, c))

_score_earnings_stability(historical) ==
    IF Len(historical) < 4 THEN [score |-> RInt(50), flags |-> <<>>]
    ELSE LET earnings ==
                 [i \in DOMAIN historical |-> RInt(historical[i].net_income)]
             volatility == calculate_volatility(earnings)
         IN  IF VolatilityAtMost(volatility, Rat(1, 10))
             THEN [score |-> RInt(100), flags |-> <<>>]
             ELSE IF VolatilityAtMost(volatility, Rat(2, 10))
             THEN [score |-> RInt(80), flags |-> <<>>]
             ELSE IF VolatilityAtMost(volatility, Rat(3, 10))
             THEN [score |-> RInt(60), flags |-> <<>>]
             ELSE IF VolatilityAtMost(volatility, Rat(5, 10))
             THEN [score |-> RInt(40),
                   flags |-> <<"High earnings volatility">>]
             ELSE [score |-> RInt(20),
                   flags |-> <<"Very high earnings volatility">>]

\* the sentences of the commentary
eq_generate_commentary(accrual, wc, oneoff, stability, red_flags) ==
    LET total == RDiv(RAdd(RAdd(accrual, wc), RAdd(oneoff, stability)),
                      RInt(4))
        quality == IF RLeq(RInt(80), total) THEN "High"
                   ELSE IF RLeq(RInt(60), total) THEN "Good"
                   ELSE IF RLeq(RInt(40), total) THEN "Fair"
                   ELSE "Poor"
    IN  <<quality,
          IF red_flags # <<>> THEN "concern(s) identified"
          ELSE "No major concerns">>
        \o (IF RLess(accrual, RInt(50)) THEN <<"high accruals">> ELSE <<>>)
        \o (IF RLess(wc, RInt(50)) THEN <<"working capital anomalies">>
            ELSE <<>>)
        \o (IF RLess(oneoff, RInt(50)) THEN <<"one-off income dependency">>
            ELSE <<>>)
        \o (IF RLess(stability, RInt(50)) THEN <<"volatile earnings">>
            ELSE <<>>)

\* EarningsQualityService.calculate_score; periods_arg is <<>> for None
eq_calculate_score(stock_code, period, periods_arg) ==
    LET loaded == load_snapshot(stock_code, period)
        snapshot == loaded[1]
        periods_for_trend ==
            IF periods_arg = <<>>
            THEN LastN(list_available_periods(stock_code), 8)
            ELSE periods_arg[1]
        historical_snapshots ==
            load_multiple_periods(stock_code, periods_for_trend)
        accrual == _score_accrual_quality(snapshot)
        wc == _score_working_capital(snapshot, historical_snapshots)
        oneoff == _score_one_off_dependency(snapshot)
        stability == _score_earnings_stability(historical_snapshots)
        red_flags == accrual.flags \o wc.flags \o oneoff.flags
                         \o stability.flags
        built == EarningsQualityScore(
                    [accrual_quality |-> Round2(accrual.score),
                     working_capital_behavior |-> Round2(wc.score),
                     one_off_dependency |-> Round2(oneoff.score),
                     earnings_stability |-> Round2(stability.score),
                     total |-> <<>>])
    IN  IF loaded = <<>> THEN NoObject
        ELSE IF built = ValidationError THEN ValidationError
        ELSE [model |-> "EarningsQualityScore",
              accrual_quality |-> built.accrual_quality,
              working_capital_behavior |-> built.working_capital_behavior,
              one_off_dependency |-> built.one_off_dependency,
              earnings_stability |-> built.earnings_stability,
              total |-> built.total,
              red_flags |-> red_flags,
              commentary |->
                  eq_generate_commentary(accrual.score, wc.score, oneoff.score,
                                         stability.score, red_flags),
              details |->
                  [accrual_ratio |-> _calculate_accrual_ratio(snapshot),
                   earnings_volatility |->
                       IF Len(historical_snapshots) >= 4
                       THEN <<calculate_volatility(
                                 [i \in DOMAIN historical_snapshots |->
                                     RInt(historical_snapshots[i].net_income)])>>
                       ELSE <<>>,
                   num_red_flags |-> Len(red_flags)]]

MaxEqPeriods == 4
EqPeriods == 1..MaxEqPeriods

\* stores of one stock: a single file that holds any profile or does not
\* parse, or files for some of the periods, each a healthy or a loss-making
\* quarter or one that does not parse
EqStores ==
    [{<<TrendStock, PeriodNow>>} ->
         ProfileNames \cup AccrualProfileNames \cup {Corrupt}]
    \cup UNION {[{<<TrendStock, p>> : p \in P} -> TrendContents] :
                   P \in SUBSET EqPeriods}

\* None, no period, the two earliest periods, or every period
EqPeriodArgs == {<<>>, <<<<>>>>, <<<<1, 2>>>>, <<SortedSeq(EqPeriods)>>}

CalculateEarningsQualityScore(period, periods_arg) ==
    /\ call = NoCall
    /\ call' = [service |-> "eq_calculate_score", stock_code |-> TrendStock,
                period |-> period, periods_for_trend |-> periods_arg]
    /\ result' = eq_calculate_score(TrendStock, period, periods_arg)
    /\ UNCHANGED <<signals, warning_level, score, metric, files>>

InitEarningsQuality ==
    /\ files \in EqStores
    /\ call = NoCall
    /\ result = NoObject
    /\ EwsIdle /\ ScoreIdle /\ MetricIdle

NextEarningsQuality ==
    /\ call = NoCall
    /\ \E period \in EqPeriods, periods_arg \in EqPeriodArgs :
           CalculateEarningsQualityScore(period, periods_arg)

SpecEarningsQuality == InitEarningsQuality /\ [][NextEarningsQuality]_vars

IsEqCall == call.service = "eq_calculate_score"
IsEqScore == result.model = "EarningsQualityScore"
EqLoaded == load_snapshot(call.stock_code, call.period)
EqSnapshot == EqLoaded[1]
\* the historical snapshots of the call
EqHistorical ==
    load_multiple_periods(call.stock_code,
        IF call.periods_for_trend = <<>>
        THEN LastN(list_available_periods(call.stock_code), 8)
        ELSE call.periods_for_trend[1])

AccrualFlags == {"Very high accruals", "Elevated accruals"}
HasFlag(S) == \E i \in DOMAIN result.red_flags : result.red_flags[i] \in S

\* |net income - operating cash flow| * den against num * total assets
AccrualAtLeast(s, num, den) ==
    Abs(s.net_income - s.operating_cash_flow[1]) * den
        >= num * Abs(s.total_assets)

\* C18: for a snapshot whose operating cash flow is present and whose total
\* assets are not 0, with r = |net income - operating cash flow| / total
\* assets and T = 0.1, the accrual-quality score is 20 if r >= 2T, 50 if
\* T <= r < 2T, 75 if 0.5T <= r < T and 100 otherwise, and an accrual red
\* flag is raised exactly in the 20 and 50 cases.
C18_AccrualSteps ==
    (/\ IsEqCall /\ IsEqScore
     /\ EqSnapshot.operating_cash_flow # <<>>
     /\ EqSnapshot.total_assets # 0) =>
        /\ result.accrual_quality =
               IF AccrualAtLeast(EqSnapshot, 2, 10) THEN RInt(20)
               ELSE IF AccrualAtLeast(EqSnapshot, 1, 10) THEN RInt(50)
               ELSE IF AccrualAtLeast(EqSnapshot, 1, 20) THEN RInt(75)
               ELSE RInt(100)
        /\ HasFlag(AccrualFlags) <=> AccrualAtLeast(EqSnapshot, 1, 10)

WorkingCapitalFlags == {"Receivables growing faster than revenue",
                        "Inventory growing faster than revenue"}
StabilityFlags == {"High earnings volatility", "Very high earnings volatility"}

\* C19: calculate_score returns None exactly when the current snapshot does
\* not load; otherwise it returns a score whose working-capital component
\* is 50 with fewer than 2 historical snapshots and whose
\* earnings-stability component is 50 with fewer than 4, neither of them
\* raising a red flag then.
C19_NeutralWithoutHistory ==
    IsEqCall =>
        IF EqLoaded = <<>> THEN result = NoObject
        ELSE /\ IsEqScore
             /\ (Len(EqHistorical) < 2 =>
                     /\ result.working_capital_behavior = RInt(50)
                     /\ ~HasFlag(WorkingCapitalFlags))
             /\ (Len(EqHistorical) < 4 =>
                     /\ result.earnings_stability = RInt(50)
                     /\ ~HasFlag(StabilityFlags))

\* one historical snapshot: both components are neutral
C19_Witness ==
    /\ IsEqCall /\ IsEqScore
    /\ Len(EqHistorical) = 1
    /\ result.working_capital_behavior = RInt(50)
    /\ result.earnings_stability = RInt(50)

\* three historical snapshots: earnings stability alone is neutral
C19_WitnessThree ==
    /\ IsEqCall /\ IsEqScore
    /\ Len(EqHistorical) = 3
    /\ result.working_capital_behavior # RInt(50)
    /\ result.earnings_stability = RInt(50)

\* the current snapshot does not load
C19_WitnessNone ==
    /\ IsEqCall
    /\ EqLoaded = <<>>
    /\ Len(EqHistorical) >= 2
    /\ result = NoObject

(***************************************************************************)
(* Early warning detection (app/services/ews_service.py).  Each rule       *)
(* returns the list of signals it raises.                                  *)
(***************************************************************************)
\* Settings defaults
ews_receivable_spike_threshold == Rat(2, 10)
ews_inventory_spike_threshold == Rat(2, 10)
ews_margin_compression_threshold == Rat(-5, 100)
ews_debt_ratio_critical == Rat(7, 10)

calculate_growth_rate(current, previous) ==
    IF previous = 0 THEN RZero
    ELSE RMul(Rat(current - previous, previous), RInt(100))

EarlyWarningSignal(signal_name, severity, current_value, threshold_value) ==
    [signal_name |-> signal_name, severity |-> severity,
     current_value |-> current_value, threshold_value |-> threshold_value]

\* measures the growth from the oldest snapshot of the history
check_receivables_spike_oldest(current, historical) ==
    IF Len(historical) < 1 THEN <<>>
    ELSE LET previous == historical[1]
             revenue_growth ==
                 calculate_growth_rate(current.net_revenue, previous.net_revenue)
             receivable_growth ==
                 calculate_growth_rate(current.accounts_receivable,
                                       previous.accounts_receivable)
             threshold == RMul(ews_receivable_spike_threshold, RInt(100))
         IN  IF RLess(RAdd(revenue_growth, threshold), receivable_growth)
             THEN <<EarlyWarningSignal("Accounts Receivable Spike", "medium",
                        receivable_growth, RAdd(revenue_growth, threshold))>>
             ELSE <<>>

_check_receivables_spike(current, historical) ==
    IF Len(historical) < 1 THEN <<>>
    ELSE LET previous == historical[Len(historical)]
             revenue_growth ==
                 calculate_growth_rate(current.net_revenue, previous.net_revenue)
             receivable_growth ==
                 calculate_growth_rate(current.accounts_receivable,
                                       previous.accounts_receivable)
             threshold == RMul(ews_receivable_spike_threshold, RInt(100))
         IN  IF RLess(RAdd(revenue_growth, threshold), receivable_growth)
             THEN <<EarlyWarningSignal("Accounts Receivable Spike", "medium",
                        receivable_growth, RAdd(revenue_growth, threshold))>>
             ELSE <<>>

_check_inventory_spike(current, historical) ==
    IF Len(historical) < 1 THEN <<>>
    ELSE LET previous == historical[Len(historical)]
             revenue_growth ==
                 calculate_growth_rate(current.net_revenue, previous.net_revenue)
             inventory_growth ==
                 calculate_growth_rate(current.inventory, previous.inventory)
             threshold == RMul(ews_inventory_spike_threshold, RInt(100))
         IN  IF RLess(RAdd(revenue_growth, threshold), inventory_growth)
             THEN <<EarlyWarningSignal("Inventory Buildup", "medium",
                        inventory_growth, RAdd(revenue_growth, threshold))>>
             ELSE <<>>

\* raises the signal at the threshold too, and high at twice the threshold
check_margin_compression_at_threshold(current, historical) ==
    IF Len(historical) < 2 THEN <<>>
    ELSE LET recent == LastN(historical, 3)
             avg_margin ==
                 RDiv(RSum([i \in DOMAIN recent |-> operating_margin(recent[i])]),
                      RInt(IF Len(historical) < 3 THEN Len(historical) ELSE 3))
             margin_change == RSub(operating_margin(current), avg_margin)
             threshold == RMul(ews_margin_compression_threshold, RInt(100))
         IN  IF RLeq(margin_change, threshold)
             THEN <<EarlyWarningSignal("Margin Compression",
                        IF RLeq(margin_change, RMul(threshold, RInt(2)))
                        THEN "high" ELSE "medium",
                        operating_margin(current),
                        RAdd(avg_margin, threshold))>>
             ELSE <<>>

_check_margin_compression(current, historical) ==
    IF Len(historical) < 2 THEN <<>>
    ELSE LET recent == LastN(historical, 3)
             avg_margin ==
                 RDiv(RSum([i \in DOMAIN recent |-> operating_margin(recent[i])]),
                      RInt(IF Len(historical) < 3 THEN Len(historical) ELSE 3))
             margin_change == RSub(operating_margin(current), avg_margin)
             threshold == RMul(ews_margin_compression_threshold, RInt(100))
         IN  IF RLess(margin_change, threshold)
             THEN <<EarlyWarningSignal("Margin Compression",
                        IF RLess(margin_change, RMul(threshold, RInt(2)))
                        THEN "high" ELSE "medium",
                        operating_margin(current),
                        RAdd(avg_margin, threshold))>>
             ELSE <<>>

\* raises the signal only above the threshold
check_leverage_above(current) ==
    LET ratio == RDiv(debt_ratio(current), RInt(100))
        threshold == ews_debt_ratio_critical
    IN  IF RLess(threshold, ratio)
        THEN <<EarlyWarningSignal("High Leverage",
                   IF RLeq(Rat(8, 10), ratio) THEN "critical" ELSE "high",
                   RMul(ratio, RInt(100)), RMul(threshold, RInt(100)))>>
        ELSE <<>>

_check_leverage_deterioration(current) ==
    LET ratio == RDiv(debt_ratio(current), RInt(100))
        threshold == ews_debt_ratio_critical
    IN  IF RLeq(threshold, ratio)
        THEN <<EarlyWarningSignal("High Leverage",
                   IF RLeq(Rat(8, 10), ratio) THEN "critical" ELSE "high",
                   RMul(ratio, RInt(100)), RMul(threshold, RInt(100)))>>
        ELSE <<>>

_check_cash_burn(current, historical) ==
    IF Len(historical) < 2 THEN <<>>
    ELSE LET recent == LastN(historical, 3)
             avg_cash ==
                 RDiv(RSum([i \in DOMAIN recent |->
                               RInt(recent[i].cash_and_equivalents)]),
                      RInt(IF Len(historical) < 3 THEN Len(historical) ELSE 3))
             cash_decline_pct ==
                 IF RLess(RZero, avg_cash)
                 THEN RMul(RDiv(RSub(RInt(current.cash_and_equivalents),
                                     avg_cash),
                                avg_cash),
                           RInt(100))
                 ELSE RZero
         IN  IF RLess(cash_decline_pct, RInt(-30))
             THEN <<EarlyWarningSignal("Cash Depletion",
                        IF RLess(cash_decline_pct, RInt(-50))
                        THEN "high" ELSE "medium",
                        cash_decline_pct, RInt(-30))>>
             ELSE <<>>

\* raises the signal with severity medium
check_negative_cash_flow_medium(current) ==
    IF current.operating_cash_flow # <<>>
           /\ current.operating_cash_flow[1] < 0
    THEN <<EarlyWarningSignal("Negative Operating Cash Flow", "medium",
               RInt(current.operating_cash_flow[1]), RZero)>>
    ELSE <<>>

\* "current.operating_cash_flow and ... < 0": None and 0.0 are both false
_check_negative_cash_flow(current) ==
    IF current.operating_cash_flow # <<>>
           /\ current.operating_cash_flow # <<0>>
           /\ current.operating_cash_flow[1] < 0
    THEN <<EarlyWarningSignal("Negative Operating Cash Flow", "high",
               RInt(current.operating_cash_flow[1]), RZero)>>
    ELSE <<>>

\* the recommendation, named by its opening words
_generate_recommendations(level) ==
    IF level = "critical" THEN "URGENT"
    ELSE IF level = "high" THEN "Closely monitor position"
    ELSE IF level = "medium" THEN "Watch list"
    ELSE IF level = "low" THEN "Minor concerns identified"
    ELSE "No significant concerns"

\* the commentary: the level and the names of the signals
ews_generate_commentary(triggered, level) ==
    IF triggered = <<>> THEN <<"No early warning signals detected">>
    ELSE <<level>> \o [i \in DOMAIN triggered |-> triggered[i].signal_name]

\* EarlyWarningService.detect_warnings; periods_arg is <<>> for None
detect_warnings(stock_code, period, periods_arg) ==
    LET loaded == load_snapshot(stock_code, period)
        current == loaded[1]
        all_periods == list_available_periods(stock_code)
        historical_periods ==
            IF periods_arg = <<>>
            THEN (IF Len(all_periods) >= 2 THEN LastN(all_periods, 5) ELSE <<>>)
            ELSE periods_arg[1]
        historical == load_multiple_periods(stock_code, historical_periods)
        triggered == _check_receivables_spike(current, historical)
                         \o _check_inventory_spike(current, historical)
                         \o _check_margin_compression(current, historical)
                         \o _check_leverage_deterioration(current)
                         \o _check_cash_burn(current, historical)
                         \o _check_negative_cash_flow(current)
        level == _determine_warning_level(triggered)
    IN  IF loaded = <<>> THEN NoObject
        ELSE [model |-> "EarlyWarningSystem",
              warning_level |-> level,
              triggered_signals |-> triggered,
              signal_count |-> Len(triggered),
              recommendation |-> _generate_recommendations(level),
              commentary |-> ews_generate_commentary(triggered, level)]

MaxEwsPeriods == 3
EwsPeriods == 1..MaxEwsPeriods
EwsContents ==
    {"healthy", "loss", "tl_16", "distressed", "no_revenue", "ca_zero", Corrupt}

\* stores of one stock: a single file that holds any profile or does not
\* parse, or files for some of the periods
EwsStores ==
    [{<<TrendStock, PeriodNow>>} -> DOMAIN AllProfiles \cup {Corrupt}]
    \cup UNION {[{<<TrendStock, p>> : p \in P} -> EwsContents] :
                   P \in SUBSET EwsPeriods}

\* None, no period, the two earliest periods, or every period
EwsPeriodArgs == {<<>>, <<<<>>>>, <<<<1, 2>>>>, <<SortedSeq(EwsPeriods)>>}

DetectWarnings(period, periods_arg) ==
    /\ call = NoCall
    /\ call' = [service |-> "detect_warnings", stock_code |-> TrendStock,
                period |-> period, historical_periods |-> periods_arg]
    /\ result' = detect_warnings(TrendStock, period, periods_arg)
    /\ UNCHANGED <<signals, warning_level, score, metric, files>>

InitEws ==
    /\ files \in EwsStores
    /\ call = NoCall
    /\ result = NoObject
    /\ EwsIdle /\ ScoreIdle /\ MetricIdle

NextEws ==
    /\ call = NoCall
    /\ \E period \in EwsPeriods, periods_arg \in EwsPeriodArgs :
           DetectWarnings(period, periods_arg)

SpecEws == InitEws /\ [][NextEws]_vars

IsEwsCall == call.service = "detect_warnings"
IsWarningSystem == result.model = "EarlyWarningSystem"
EwsCurrent == load_snapshot(call.stock_code, call.period)[1]
\* the signals of the result that carry the name
SignalsNamed(signal_name) ==
    {i \in DOMAIN result.triggered_signals :
        result.triggered_signals[i].signal_name = signal_name}

\* C20: the high-leverage rule raises exactly one signal iff liabilities /
\* assets of the current snapshot is at least 70%, critical when it is at
\* least 80% and high otherwise, and nothing below 70%; every snapshot with
\* a debt ratio of at least 80% gets the overall level critical.
C20_HighLeverage ==
    (IsEwsCall /\ IsWarningSystem) =>
        LET s == EwsCurrent
            atLeast70 == s.total_assets # 0
                            /\ 10 * s.total_liabilities >= 7 * s.total_assets
            atLeast80 == s.total_assets # 0
                            /\ 10 * s.total_liabilities >= 8 * s.total_assets
            named == SignalsNamed("High Leverage")
        IN  /\ Cardinality(named) = IF atLeast70 THEN 1 ELSE 0
            /\ \A i \in named :
                   result.triggered_signals[i].severity =
                       IF atLeast80 THEN "critical" ELSE "high"
            /\ (atLeast80 => result.warning_level = "critical")

\* a debt ratio of exactly 70% raises a high signal
C20_Witness ==
    /\ IsEwsCall /\ IsWarningSystem
    /\ debt_ratio(EwsCurrent) = RInt(70)
    /\ \E i \in SignalsNamed("High Leverage") :
           result.triggered_signals[i].severity = "high"

\* a debt ratio of exactly 80% raises a critical signal
C20_WitnessCritical ==
    /\ IsEwsCall /\ IsWarningSystem
    /\ debt_ratio(EwsCurrent) = RInt(80)
    /\ \E i \in SignalsNamed("High Leverage") :
           result.triggered_signals[i].severity = "critical"
    /\ result.warning_level = "critical"

\* a debt ratio of 85% among other signals: the overall level is critical
C20_WitnessAmongOthers ==
    /\ IsEwsCall /\ IsWarningSystem
    /\ debt_ratio(EwsCurrent) = RInt(85)
    /\ result.signal_count >= 3
    /\ result.warning_level = "critical"

\* the historical snapshots of the call
EwsHistorical ==
    load_multiple_periods(call.stock_code,
        IF call.historical_periods = <<>>
        THEN (IF Len(list_available_periods(call.stock_code)) >= 2
              THEN LastN(list_available_periods(call.stock_code), 5)
              ELSE <<>>)
        ELSE call.historical_periods[1])

\* C21: when the operating cash flow of the current snapshot is present and
\* negative, the result holds one 'Negative Operating Cash Flow' signal of
\* severity high, whatever the history, and the overall level is high or
\* critical; when it is absent, 0 or positive the result holds none.
C21_NegativeCashFlow ==
    (IsEwsCall /\ IsWarningSystem) =>
        LET ocf == EwsCurrent.operating_cash_flow
            named == SignalsNamed("Negative Operating Cash Flow")
        IN  IF ocf # <<>> /\ ocf[1] < 0
            THEN /\ Cardinality(named) = 1
                 /\ \A i \in named :
                        result.triggered_signals[i].severity = "high"
                 /\ result.warning_level \in {"high", "critical"}
            ELSE named = {}

\* a negative operating cash flow and no history at all
C21_Witness ==
    /\ IsEwsCall /\ IsWarningSystem
    /\ EwsCurrent.operating_cash_flow = <<-1>>
    /\ EwsHistorical = <<>>
    /\ SignalsNamed("Negative Operating Cash Flow") # {}
    /\ result.warning_level = "high"

\* an operating cash flow of 0 raises nothing
C21_WitnessZero ==
    /\ IsEwsCall /\ IsWarningSystem
    /\ EwsCurrent.operating_cash_flow = <<0>>
    /\ SignalsNamed("Negative Operating Cash Flow") = {}

\* C22: in a call without a history list, the history handed to the rules
\* holds at most 5 snapshots of the same company, each of a period strictly
\* earlier than the current period.
C22_TrailingHistory ==
    (IsEwsCall /\ IsWarningSystem /\ call.historical_periods = <<>>) =>
        /\ Len(EwsHistorical) <= 5
        /\ \A i \in DOMAIN EwsHistorical :
               /\ EwsHistorical[i].stock_code = call.stock_code
               /\ EwsHistorical[i].report_period < call.period

\* the snapshots the margin rule averages over, and the sum of their margins
MarginRecent == LastN(EwsHistorical, 3)
MarginSum == RSum([i \in DOMAIN MarginRecent |-> operating_margin(MarginRecent[i])])
\* Len(MarginRecent) times (current operating margin - average margin)
MarginGap ==
    RSub(RMul(RInt(Len(MarginRecent)), operating_margin(EwsCurrent)), MarginSum)
MarginSignals == SignalsNamed("Margin Compression")

\* C25: with 2 historical snapshots or more, the result holds one 'Margin
\* Compression' signal iff the current operating margin minus the average
\* operating margin of the last up-to-3 historical snapshots is below -5
\* points, high iff it is below -10 points and medium otherwise; with fewer
\* than 2 historical snapshots it holds none.
C25_MarginCompression ==
    (IsEwsCall /\ IsWarningSystem) =>
        IF /\ Len(EwsHistorical) >= 2
           /\ RLess(MarginGap, RInt(-5 * Len(MarginRecent)))
        THEN /\ Cardinality(MarginSignals) = 1
             /\ \A i \in MarginSignals :
                    result.triggered_signals[i].severity
                        = IF RLess(MarginGap, RInt(-10 * Len(MarginRecent)))
                          THEN "high" ELSE "medium"
        ELSE MarginSignals = {}

\* a margin exactly 10 points under the average: medium
C25_Witness ==
    /\ IsEwsCall /\ IsWarningSystem
    /\ Len(EwsHistorical) >= 2
    /\ MarginGap = RInt(-10 * Len(MarginRecent))
    /\ \E i \in MarginSignals : result.triggered_signals[i].severity = "medium"

\* a margin more than 10 points under the average of three snapshots: high
C25_WitnessHigh ==
    /\ IsEwsCall /\ IsWarningSystem
    /\ Len(EwsHistorical) = 3
    /\ \E i \in MarginSignals : result.triggered_signals[i].severity = "high"

\* a margin exactly 5 points under the average raises nothing
C25_WitnessAtThreshold ==
    /\ IsEwsCall /\ IsWarningSystem
    /\ Len(EwsHistorical) >= 2
    /\ MarginGap = RInt(-5 * Len(MarginRecent))
    /\ MarginSignals = {}

\* a lower margin against a single historical snapshot raises nothing
C25_WitnessShortHistory ==
    /\ IsEwsCall /\ IsWarningSystem
    /\ Len(EwsHistorical) = 1
    /\ RLess(RAdd(operating_margin(EwsCurrent), RInt(10)),
             operating_margin(EwsHistorical[1]))
    /\ MarginSignals = {}

\* the last snapshot of the history
EwsPrevious == EwsHistorical[Len(EwsHistorical)]
\* growth in percent of an amount from prev to cur, times prev: growth from
\* 0 counts as 0
GrowthTimesPrevious(cur, prev) == IF prev = 0 THEN 0 ELSE (cur - prev) * 100
\* the growth of the item exceeds the growth of revenue by more than 20
\* points; the amounts are not negative
Outgrows(item, prev_item, revenue, prev_revenue) ==
    LET pi == IF prev_item = 0 THEN 1 ELSE prev_item
        pr == IF prev_revenue = 0 THEN 1 ELSE prev_revenue
    IN  GrowthTimesPrevious(item, prev_item) * pr
            > GrowthTimesPrevious(revenue, prev_revenue) * pi + 20 * pi * pr
ReceivableSignals == SignalsNamed("Accounts Receivable Spike")
InventorySignals == SignalsNamed("Inventory Buildup")

\* C26: with a historical snapshot or more, the result holds one medium
\* 'Accounts Receivable Spike' signal iff the growth of receivables from the
\* last historical snapshot to the current one exceeds the growth of revenue
\* by more than 20 points, growth from 0 counting as 0, and likewise one
\* medium 'Inventory Buildup' signal for inventory; without history it holds
\* neither.
C26_SpikeRules ==
    (IsEwsCall /\ IsWarningSystem) =>
        /\ \A i \in ReceivableSignals \cup InventorySignals :
               result.triggered_signals[i].severity = "medium"
        /\ IF EwsHistorical = <<>>
           THEN ReceivableSignals = {} /\ InventorySignals = {}
           ELSE /\ Cardinality(ReceivableSignals)
                       = IF Outgrows(EwsCurrent.accounts_receivable,
                                     EwsPrevious.accounts_receivable,
                                     EwsCurrent.net_revenue,
                                     EwsPrevious.net_revenue)
                         THEN 1 ELSE 0
                /\ Cardinality(InventorySignals)
                       = IF Outgrows(EwsCurrent.inventory,
                                     EwsPrevious.inventory,
                                     EwsCurrent.net_revenue,
                                     EwsPrevious.net_revenue)
                         THEN 1 ELSE 0

\* receivables doubled while revenue halved, against the last of two
\* historical snapshots that differ
C26_Witness ==
    /\ IsEwsCall /\ IsWarningSystem
    /\ Len(EwsHistorical) = 2
    /\ EwsHistorical[1].accounts_receivable # EwsPrevious.accounts_receivable
    /\ EwsCurrent.accounts_receivable = 2 * EwsPrevious.accounts_receivable
    /\ 2 * EwsCurrent.net_revenue = EwsPrevious.net_revenue
    /\ EwsPrevious.net_revenue > 0
    /\ Cardinality(ReceivableSignals) = 1

\* inventory grew faster than revenue
C26_WitnessInventory ==
    /\ IsEwsCall /\ IsWarningSystem
    /\ EwsHistorical # <<>>
    /\ Cardinality(InventorySignals) = 1
    /\ ReceivableSignals = {}

\* receivables grew from 0: the growth counts as 0 and nothing is raised
C26_WitnessFromZero ==
    /\ IsEwsCall /\ IsWarningSystem
    /\ EwsHistorical # <<>>
    /\ EwsPrevious.accounts_receivable = 0
    /\ EwsCurrent.accounts_receivable > 0
    /\ EwsPrevious.net_revenue = EwsCurrent.net_revenue
    /\ ReceivableSignals = {}

(***************************************************************************)
(* SnapshotService (app/services/snapshot_service.py): a snapshot is read  *)
(* with the derived ratios pydantic computes on every access.              *)
(***************************************************************************)
\* enrich_snapshot returns the snapshot it is given
enrich_snapshot(snapshot) == snapshot

\* the snapshot as it is read: the raw fields and the computed fields
ComputedFields(s) ==
    [model |-> "FinancialSnapshot", snapshot |-> s,
     gross_margin |-> gross_margin(s),
     operating_margin |-> operating_margin(s),
     net_margin |-> net_margin(s),
     debt_ratio |-> debt_ratio(s),
     equity_ratio |-> equity_ratio(s),
     current_ratio |-> current_ratio(s),
     roa |-> roa(s),
     roe |-> roe(s)]

\* SnapshotService.get_snapshot
get_snapshot(stock_code, period) ==
    LET snapshot == load_snapshot(stock_code, period)
    IN  IF snapshot # <<>> THEN ComputedFields(enrich_snapshot(snapshot[1]))
        ELSE NoObject

\* SnapshotService.get_summary: the dict of the rounded figures
get_summary(stock_code, period) ==
    LET read == get_snapshot(stock_code, period)
        snapshot == read.snapshot
    IN  IF read = NoObject THEN NoObject
        ELSE [model |-> "summary",
              identification |->
                  [stock_code |-> snapshot.stock_code,
                   company_name |-> snapshot.company_name,
                   period |-> snapshot.report_period],
              income_statement |->
                  [net_revenue |-> snapshot.net_revenue,
                   gross_profit |-> snapshot.gross_profit,
                   operating_income |-> snapshot.operating_income,
                   net_income |-> snapshot.net_income,
                   eps |-> snapshot.eps],
              margins |->
                  [gross_margin |-> Round2(read.gross_margin),
                   operating_margin |-> Round2(read.operating_margin),
                   net_margin |-> Round2(read.net_margin)],
              balance_sheet |->
                  [total_assets |-> snapshot.total_assets,
                   total_liabilities |-> snapshot.total_liabilities,
                   equity |-> snapshot.equity,
                   cash_and_equivalents |-> snapshot.cash_and_equivalents],
              financial_structure |->
                  [debt_ratio |-> Round2(read.debt_ratio),
                   equity_ratio |-> Round2(read.equity_ratio),
                   current_ratio |->
                       IF read.current_ratio # <<>>
                          /\ read.current_ratio[1] # RZero
                       THEN <<Round2(read.current_ratio[1])>>
                       ELSE <<>>],
              returns |->
                  [roa |-> Round2(read.roa), roe |-> Round2(read.roe)]]

MaxSnapshotPeriods == 2
SnapshotPeriods == 1..MaxSnapshotPeriods

\* stores of one stock with files for some of the periods
SnapshotStores ==
    UNION {[{<<TrendStock, p>> : p \in P} -> DOMAIN AllProfiles \cup {Corrupt}] :
              P \in SUBSET SnapshotPeriods}

GetSnapshot(period) ==
    /\ call = NoCall
    /\ call' = [service |-> "get_snapshot", stock_code |-> TrendStock,
                period |-> period]
    /\ result' = get_snapshot(TrendStock, period)
    /\ UNCHANGED <<signals, warning_level, score, metric, files>>

GetSummary(period) ==
    /\ call = NoCall
    /\ call' = [service |-> "get_summary", stock_code |-> TrendStock,
                period |-> period]
    /\ result' = get_summary(TrendStock, period)
    /\ UNCHANGED <<signals, warning_level, score, metric, files>>

InitSnapshot ==
    /\ files \in SnapshotStores
    /\ call = NoCall
    /\ result = NoObject
    /\ EwsIdle /\ ScoreIdle /\ MetricIdle

NextSnapshot ==
    \/ \E period \in SnapshotPeriods : GetSnapshot(period)
    \/ \E period \in SnapshotPeriods : GetSummary(period)

SpecSnapshot == InitSnapshot /\ [][NextSnapshot]_vars

IsSnapshotRead == call.service = "get_snapshot" /\ result.model = "FinancialSnapshot"
\* the raw fields of the snapshot that was read
Raw == result.snapshot
BothCurrentPresent == Raw.current_assets # <<>> /\ Raw.current_liabilities # <<>>

\* C23: current_ratio is current assets / current liabilities whenever both
\* fields are present and current liabilities is not 0, and is None exactly
\* when a field is absent or current liabilities is 0.
C23_CurrentRatio ==
    IsSnapshotRead =>
        IF BothCurrentPresent /\ Raw.current_liabilities[1] # 0
        THEN result.current_ratio
                 = <<Rat(Raw.current_assets[1], Raw.current_liabilities[1])>>
        ELSE result.current_ratio = <<>>

\* the ratio is the quotient of the two amounts
IsQuotient(ratio, part, whole) == ratio[2] > 0 /\ ratio[1] * whole = part * ratio[2]
\* the ratio is the quotient in percent (times 4 when annualised)
IsPercentOf(ratio, part, whole, times) ==
    IF whole = 0 THEN ratio = RZero
    ELSE IsQuotient(ratio, part * 100 * times, whole)

\* C24: each margin is its line item / net revenue * 100, and 0 when net
\* revenue is 0; debt ratio, equity ratio and ROA are 0 when total assets is
\* 0 and ROE is 0 when equity is 0; every derived ratio is a finite number.
C24_RatiosGuarded ==
    IsSnapshotRead =>
        /\ IsPercentOf(result.gross_margin, Raw.gross_profit, Raw.net_revenue, 1)
        /\ IsPercentOf(result.operating_margin, Raw.operating_income,
                       Raw.net_revenue, 1)
        /\ IsPercentOf(result.net_margin, Raw.net_income, Raw.net_revenue, 1)
        /\ Raw.total_assets = 0 =>
               /\ result.debt_ratio = RZero
               /\ result.equity_ratio = RZero
               /\ result.roa = RZero
        /\ Raw.equity = 0 => result.roe = RZero
        /\ \A ratio \in {result.gross_margin, result.operating_margin,
                         result.net_margin, result.debt_ratio,
                         result.equity_ratio, result.roa, result.roe} :
               ratio[2] > 0
        /\ result.current_ratio # <<>> => result.current_ratio[1][2] > 0

\* a quarter without revenue but with an operating loss was read
C24_Witness ==
    /\ IsSnapshotRead
    /\ Raw.net_revenue = 0 /\ Raw.operating_income # 0
    /\ result.operating_margin = RZero

\* a quarter with a loss and no equity was read
C24_WitnessNoEquity ==
    /\ IsSnapshotRead
    /\ Raw.equity = 0 /\ Raw.net_income # 0 /\ Raw.total_assets # 0
    /\ result.roe = RZero

\* a quarter with revenue was read: gross margin of 50 percent
C24_WitnessMargin ==
    /\ IsSnapshotRead
    /\ Raw.net_revenue = 8 /\ Raw.gross_profit = 4
    /\ result.gross_margin = RInt(50)

(***************************************************************************)
(* Best and worst performer of a peer comparison against its ranking.      *)
(***************************************************************************)
\* the calls compare_peers makes: Debt Ratio ascending, the others descending
FromComparePeers ==
    /\ call.service = "_compare_metric"
    /\ call.higher_is_better = (call.metric_name # "Debt Ratio (%)")

\* the positions of the company in the comparison
PositionsOf(company) ==
    {i \in DOMAIN result.companies : result.companies[i] = company}

\* C27: in every PeerComparison of compare_peers over one company or more,
\* best_performer is the company ranked 1 and worst_performer the company
\* ranked n, for Debt Ratio (lower is better) as for the other metrics.
C27_BestIsRankOne ==
    (FromComparePeers /\ result.values # <<>>) =>
        /\ \A i \in PositionsOf(result.best_performer) : result.ranking[i] = 1
        /\ \A i \in PositionsOf(result.worst_performer) :
               result.ranking[i] = Len(result.values)

\* the snapshot _score_working_capital measures the growth from
EqPrevious == EqHistorical[Len(EqHistorical) - 1]

\* C28: in a call without a history list for a company with 2 stored periods
\* or more, the 'previous' snapshot of the working-capital component is of a
\* period strictly earlier than the requested period, whichever period is
\* requested.
C28_PreviousIsEarlier ==
    (/\ IsEqCall /\ IsEqScore
     /\ call.periods_for_trend = <<>>
     /\ Len(list_available_periods(call.stock_code)) >= 2
     /\ Len(EqHistorical) >= 2) =>
        /\ EqPrevious.stock_code = call.stock_code
        /\ EqPrevious.report_period < call.period

\* net income of the historical snapshots, its mean and its variance
EqEarnings == [i \in DOMAIN EqHistorical |-> RInt(EqHistorical[i].net_income)]
EqMeanSquared == RMul(mean(EqEarnings), mean(EqEarnings))
EqVariance == stdev(EqEarnings).sq

\* C29: with 4 historical snapshots or more, the earnings-stability score is
\* 100 only if the standard deviation of net income is at most 10% of the
\* magnitude of its mean, and a volatility red flag is raised whenever the
\* standard deviation exceeds 30% of that magnitude, for a negative mean as
\* for a positive one.
C29_StabilityByMagnitude ==
    (IsEqCall /\ IsEqScore /\ Len(EqHistorical) >= 4) =>
        /\ result.earnings_stability = RInt(100) =>
               RLeq(EqVariance, RMul(Rat(1, 100), EqMeanSquared))
        /\ RLess(RMul(Rat(9, 100), EqMeanSquared), EqVariance) =>
               HasFlag(StabilityFlags)

(***************************************************************************)
(* The agent workflow (app/agents/workflow.py): a graph of an intent       *)
(* router, nine analysis nodes and an answer composer.  A query is the     *)
(* sequence of its words and 'word in query_lower' is containment of the   *)
(* keyword's words as a contiguous run.  A run is held in result: the      *)
(* AgentState, the node the graph runs next, and the nodes it has run.     *)
(***************************************************************************)
END == "__end__"

AnalysisNodes ==
    {"snapshot", "trend", "peer", "management", "earnings_quality",
     "roic_wacc", "factor", "capital_allocation", "ews"}

\* the keyword lists of _intent_router_node, in the order they are tried
IntentKeywords ==
    <<[intent |-> "trend",
       words |-> {<<"trend">>, <<"over", "time">>, <<"historical">>,
                  <<"growth">>}],
      [intent |-> "peer",
       words |-> {<<"compare">>, <<"peer">>, <<"vs">>, <<"versus">>,
                  <<"against">>}],
      [intent |-> "management",
       words |-> {<<"management">>, <<"governance">>, <<"ceo">>, <<"board">>}],
      [intent |-> "earnings_quality",
       words |-> {<<"earnings", "quality">>, <<"accrual">>, <<"cash", "flow">>}],
      [intent |-> "roic_wacc",
       words |-> {<<"roic">>, <<"wacc">>, <<"value", "creation">>,
                  <<"return", "on", "capital">>}],
      [intent |-> "factor",
       words |-> {<<"factor">>, <<"exposure">>, <<"quality">>, <<"value">>,
                  <<"momentum">>}],
      [intent |-> "capital_allocation",
       words |-> {<<"capital", "allocation">>, <<"dividend">>, <<"buyback">>,
                  <<"capex">>}],
      [intent |-> "ews",
       words |-> {<<"risk">>, <<"warning">>, <<"red", "flag">>, <<"concern">>}]>>

\* str.lower of a word
LowerWord(w) ==
    CASE w = "Trend" -> "trend"
      [] w = "CEO" -> "ceo"
      [] w = "Risk" -> "risk"
      [] OTHER -> w
lower(query) == [i \in DOMAIN query |-> LowerWord(query[i])]

\* keyword in query_lower
Contains(query, keyword) ==
    \E i \in 0..(Len(query) - Len(keyword)) :
        \A j \in 1..Len(keyword) : query[i + j] = keyword[j]

\* any(word in query_lower for word in [...])
AnyWordIn(query_lower, words) == \E word \in words : Contains(query_lower, word)

\* the if / elif chain of _intent_router_node
RECURSIVE ClassifyFrom(_, _)
ClassifyFrom(query_lower, k) ==
    IF k > Len(IntentKeywords) THEN "snapshot"
    ELSE IF AnyWordIn(query_lower, IntentKeywords[k].words)
         THEN IntentKeywords[k].intent
         ELSE ClassifyFrom(query_lower, k + 1)

_intent_router_node(state) ==
    [state EXCEPT !.intent = ClassifyFrom(lower(state.query), 1)]

\* routes every query to the fallback key
route_by_intent_default(state) == "default"

\* state.get("intent", "default")
_route_by_intent(state) == state.intent

\* the mapping of add_conditional_edges
ConditionalEdges ==
    [n \in AnalysisNodes \cup {"default"} |->
        IF n = "default" THEN "snapshot" ELSE n]

\* the target of the router's conditional edge: a key outside the mapping
\* has no target
RouterTarget(state) ==
    IF _route_by_intent(state) \in DOMAIN ConditionalEdges
    THEN <<ConditionalEdges[_route_by_intent(state)]>>
    ELSE <<>>

\* add_edge(node, "answer_composer") and add_edge("answer_composer", END)
Edges ==
    [n \in AnalysisNodes \cup {"answer_composer"} |->
        IF n = "answer_composer" THEN END ELSE "answer_composer"]

\* the 'success' a tool can report: tool_management_score always succeeds,
\* the other tools succeed when the services find their data
ToolOutcomes(node) == IF node = "management" THEN {TRUE} ELSE BOOLEAN

\* an analysis node stores the result of its tool
AnalysisNode(state, success) == [state EXCEPT !.analysis_data = <<success>>]

\* analysis_data.get("success") is None for the empty dict
_answer_composer_node(state) ==
    [state EXCEPT !.final_answer =
        IF state.analysis_data = <<>> \/ ~state.analysis_data[1]
        THEN <<"Unable to complete", state.intent, "analysis">>
        ELSE <<"llm answer", state.intent>>]

MaxQueryWords == 2
Vocabulary ==
    {"Trend", "growth", "vs", "CEO", "cash", "flow", "value", "creation",
     "quality", "earnings", "Risk", "dividend", "roic", "hello"}
Queries == UNION {[1..n -> Vocabulary] : n \in 0..MaxQueryWords}

\* FinancialAgent.query: the initial state enters the graph at the router
Query(q) ==
    /\ call = NoCall
    /\ call' = [service |-> "agent_query", query |-> q]
    /\ result' = [model |-> "AgentRun",
                  state |-> [query |-> q, intent |-> "",
                             analysis_data |-> <<>>, final_answer |-> <<>>],
                  next |-> <<"intent_router">>,
                  ran |-> <<>>]
    /\ UNCHANGED <<signals, warning_level, score, metric, files>>

IsAgentRun == call # NoCall /\ call.service = "agent_query"
RunsNext(node) == IsAgentRun /\ result.next = <<node>>

RunIntentRouter ==
    /\ RunsNext("intent_router")
    /\ LET state == _intent_router_node(result.state)
       IN  result' = [result EXCEPT !.state = state,
                                    !.next = RouterTarget(state),
                                    !.ran = Append(@, "intent_router")]
    /\ UNCHANGED <<signals, warning_level, score, metric, files, call>>

RunAnalysisNode(node, success) ==
    /\ RunsNext(node)
    /\ success \in ToolOutcomes(node)
    /\ result' = [result EXCEPT !.state = AnalysisNode(result.state, success),
                                !.next = <<Edges[node]>>,
                                !.ran = Append(@, node)]
    /\ UNCHANGED <<signals, warning_level, score, metric, files, call>>

RunAnswerComposer ==
    /\ RunsNext("answer_composer")
    /\ result' = [result EXCEPT !.state = _answer_composer_node(result.state),
                                !.next = <<Edges["answer_composer"]>>,
                                !.ran = Append(@, "answer_composer")]
    /\ UNCHANGED <<signals, warning_level, score, metric, files, call>>

InitAgent ==
    /\ files = <<>>
    /\ call = NoCall
    /\ result = NoObject
    /\ EwsIdle /\ ScoreIdle /\ MetricIdle

NextAgent ==
    \/ \E q \in Queries : Query(q)
    \/ RunIntentRouter
    \/ \E node \in AnalysisNodes, success \in BOOLEAN :
           RunAnalysisNode(node, success)
    \/ RunAnswerComposer

SpecAgent == InitAgent /\ [][NextAgent]_vars
\* the graph runs the next node as long as there is one
SpecAgentFair == SpecAgent /\ WF_vars(NextAgent)

\* the nodes of a complete run for the intent
CompleteRun(intent) == <<"intent_router", intent, "answer_composer">>
IsPrefix(s, t) == Len(s) <= Len(t) /\ \A i \in DOMAIN s : s[i] = t[i]

\* the run so far is the beginning of router, node of the intent, composer;
\* the router leaves every query with one of the nine intents and a target
RunInOrder ==
    IsAgentRun =>
        /\ result.next # <<>>
        /\ result.ran = <<>> => result.next = <<"intent_router">>
        /\ result.ran # <<>> =>
               /\ result.state.intent \in AnalysisNodes
               /\ IsPrefix(result.ran, CompleteRun(result.state.intent))
               /\ result.next =
                      <<(CompleteRun(result.state.intent) \o <<END>>)
                            [Len(result.ran) + 1]>>

RunAtEnd ==
    /\ IsAgentRun
    /\ result.next = <<END>>
    /\ result.ran = CompleteRun(result.state.intent)

C30_WitnessFallback ==
    /\ RunAtEnd
    /\ call.query = <<"hello">>
    /\ result.ran = <<"intent_router", "snapshot", "answer_composer">>
    /\ result.state.analysis_data = <<FALSE>>

====
